---------------------------- MODULE Spec2Model ----------------------------
(***************************************************************************)
(* Model of the rule-based query engine of data_insight_pro                *)
(* (ai_assistant.query_data_with_ai).                                      *)
(*                                                                         *)
(* Strings are sequences of one-character strings, so that str.lower() and *)
(* the substring test `a in b` are computed the way Python computes them.  *)
(* A DataFrame is a record [columns, index]; a column is a record          *)
(* [name, dtype, vals]; a cell is <<>> (missing) or <<v>> with v a natural *)
(* number (object and datetime cells are represented by their rank in the  *)
(* column's sort order).  A float is an exact rational [n, d]; d = 0       *)
(* encodes the non-finite floats nan (n = 0) and inf (n = 1).              *)
(* The library semantics are those of pandas 1.x, the version the          *)
(* repository is written against (utils.py calls ExcelWriter.save()).      *)
(***************************************************************************)
EXTENDS Integers, Sequences, FiniteSets, TLC

VARIABLES
    df,        \* the dataset handed to query_data_with_ai
    query,     \* the query text of the last call
    result,    \* what the last call returned, or the exception it raised
    session_state \* the data, chart and chat_history the application keeps

vars == <<df, query, result, session_state>>

-----------------------------------------------------------------------------
(* Bounds of the model *)

\* rows of a dataset and fragments of a query (Spec, SpecCols)
MaxRows == 1
MaxFrags == 3
\* columns of a dataset and column phrases of a query (SpecCols)
MaxCols == 3
MaxMentions == 2

-----------------------------------------------------------------------------
(* Strings *)

\* str.lower() on one character: the ASCII upper-case letters and their images

UpperToLower ==
    [A |-> "a", B |-> "b", C |-> "c", D |-> "d", E |-> "e", F |-> "f",
     G |-> "g", H |-> "h", I |-> "i", J |-> "j", K |-> "k", L |-> "l",
     M |-> "m", N |-> "n", O |-> "o", P |-> "p", Q |-> "q", R |-> "r",
     S |-> "s", T |-> "t", U |-> "u", V |-> "v", W |-> "w", X |-> "x",
     Y |-> "y", Z |-> "z"]

LowerChar(c) == IF c \in DOMAIN UpperToLower THEN UpperToLower[c] ELSE c


\* str.lower()
RECURSIVE LowerStr(_)
LowerStr(s) ==
    IF s = <<>> THEN <<>> ELSE <<LowerChar(Head(s))>> \o LowerStr(Tail(s))

\* Python's `t in s` for strings: t occurs in s as a contiguous substring
Contains(s, t) ==
    \E i \in 0..(Len(s) - Len(t)) : \A k \in 1..Len(t) : s[i + k] = t[k]

\* any(word in q for word in words)
AnyWordIn(words, q) == \E i \in DOMAIN words : Contains(q, words[i])

-----------------------------------------------------------------------------
(* Keyword lists of query_data_with_ai *)

SummaryWords ==
    << <<"s", "u", "m", "m", "a", "r", "i", "z", "e">>,
       <<"s", "u", "m", "m", "a", "r", "y">>,
       <<"o", "v", "e", "r", "v", "i", "e", "w">>,
       <<"d", "e", "s", "c", "r", "i", "b", "e">> >>

StatisticalWords ==
    << <<"a", "v", "e", "r", "a", "g", "e">>,
       <<"m", "e", "a", "n">>,
       <<"m", "e", "d", "i", "a", "n">>,
       <<"m", "a", "x", "i", "m", "u", "m">>,
       <<"m", "i", "n", "i", "m", "u", "m">>,
       <<"c", "o", "r", "r", "e", "l", "a", "t", "i", "o", "n">>,
       <<"c", "o", "r", "r", "e", "l", "a", "t", "e">> >>

DistributionWords ==
    << <<"d", "i", "s", "t", "r", "i", "b", "u", "t", "i", "o", "n">>,
       <<"h", "i", "s", "t", "o", "g", "r", "a", "m">>,
       <<"s", "p", "r", "e", "a", "d">>,
       <<"r", "a", "n", "g", "e">> >>

ComparisonWords ==
    << <<"c", "o", "m", "p", "a", "r", "e">>,
       <<"c", "o", "m", "p", "a", "r", "i", "s", "o", "n">>,
       <<"d", "i", "f", "f", "e", "r", "e", "n", "c", "e">>,
       <<"v", "e", "r", "s", "u", "s">>,
       <<"v", "s">> >>

TrendWords ==
    << <<"t", "r", "e", "n", "d">>,
       <<"t", "i", "m", "e">>,
       <<"o", "v", "e", "r", " ", "t", "i", "m", "e">>,
       <<"c", "h", "a", "n", "g", "e">>,
       <<"e", "v", "o", "l", "u", "t", "i", "o", "n">> >>

DateWords ==
    << <<"d", "a", "t", "e">>,
       <<"t", "i", "m", "e">>,
       <<"y", "e", "a", "r">>,
       <<"m", "o", "n", "t", "h">>,
       <<"d", "a", "y">> >>

kw_average == <<"a", "v", "e", "r", "a", "g", "e">>

kw_mean == <<"m", "e", "a", "n">>

kw_median == <<"m", "e", "d", "i", "a", "n">>

kw_maximum == <<"m", "a", "x", "i", "m", "u", "m">>

kw_max == <<"m", "a", "x">>

kw_minimum == <<"m", "i", "n", "i", "m", "u", "m">>

kw_min == <<"m", "i", "n">>

kw_correlation == <<"c", "o", "r", "r", "e", "l", "a", "t", "i", "o", "n">>

kw_correlate == <<"c", "o", "r", "r", "e", "l", "a", "t", "e">>

-----------------------------------------------------------------------------
(* Floats *)

NaN == [n |-> 0, d |-> 0]
Inf == [n |-> 1, d |-> 0]

IsNaN(r) == r.d = 0 /\ r.n = 0

Abs(x) == IF x < 0 THEN -x ELSE x

RECURSIVE GCD(_, _)
GCD(a, b) == IF b = 0 THEN a ELSE GCD(b, a % b)

\* the float num / den, den > 0
Rat(num, den) ==
    LET g == GCD(Abs(num), den)
    IN  [n |-> num \div g, d |-> den \div g]

Num(v) == [n |-> v, d |-> 1]

RECURSIVE SumSeq(_)
SumSeq(s) == IF s = <<>> THEN 0 ELSE Head(s) + SumSeq(Tail(s))

RECURSIVE SortAsc(_)
SortAsc(s) ==
    IF s = <<>> THEN <<>>
    ELSE LET m == CHOOSE x \in {s[i] : i \in DOMAIN s} :
                      \A j \in DOMAIN s : x <= s[j]
             p == CHOOSE i \in DOMAIN s :
                      s[i] = m /\ \A j \in 1..(i - 1) : s[j] # m
         IN  <<m>> \o SortAsc(SubSeq(s, 1, p - 1) \o SubSeq(s, p + 1, Len(s)))

-----------------------------------------------------------------------------
(* Series: aggregates skip missing cells *)

\* Series.dropna(), as the sequence of the values present
Dropna(vals) ==
    LET s == SelectSeq(vals, LAMBDA c : c # <<>>)
    IN  [i \in 1..Len(s) |-> s[i][1]]

\* Series.mean()
Mean(vals) ==
    LET v == Dropna(vals)
    IN  IF Len(v) = 0 THEN NaN ELSE Rat(SumSeq(v), Len(v))

\* Series.median()
Median(vals) ==
    LET v == SortAsc(Dropna(vals))
        k == Len(v)
    IN  IF k = 0 THEN NaN
        ELSE IF k % 2 = 1 THEN Num(v[(k + 1) \div 2])
        ELSE Rat(v[k \div 2] + v[(k \div 2) + 1], 2)

\* Series.max()
SeriesMax(vals) ==
    LET v == Dropna(vals)
    IN  IF Len(v) = 0 THEN NaN
        ELSE Num(CHOOSE x \in {v[i] : i \in DOMAIN v} : \A j \in DOMAIN v : v[j] <= x)

\* Series.min()
SeriesMin(vals) ==
    LET v == Dropna(vals)
    IN  IF Len(v) = 0 THEN NaN
        ELSE Num(CHOOSE x \in {v[i] : i \in DOMAIN v} : \A j \in DOMAIN v : x <= v[j])

\* Series.std() squared (sample variance, ddof = 1); nan below two values
StdSquared(vals) ==
    LET v == Dropna(vals)
        k == Len(v)
        s == SumSeq(v)
        ss == SumSeq([i \in 1..k |-> v[i] * v[i]])
    IN  IF k < 2 THEN NaN ELSE Rat(k * ss - s * s, k * (k - 1))

\* Series.nunique()
Nunique(vals) == Cardinality({vals[i][1] : i \in {j \in DOMAIN vals : vals[j] # <<>>}})

\* The elements of a finite set of numbers in ascending order
SortedSeq(S) ==
    [i \in 1..Cardinality(S) |->
        CHOOSE x \in S : Cardinality({y \in S : y < x}) = i - 1]

\* Series.value_counts(): the counts of the values present, in descending order
ValueCounts(vals) ==
    LET v == Dropna(vals)
        uniq == SortedSeq({v[i] : i \in DOMAIN v})
        asc == SortAsc([k \in DOMAIN uniq |->
                   Cardinality({i \in DOMAIN v : v[i] = uniq[k]})])
    IN  [i \in 1..Len(asc) |-> asc[Len(asc) + 1 - i]]

\* The position numpy's argmax (resp. argmin) returns among the cells present:
\* the first position holding the extreme value
ArgMax(vals) ==
    CHOOSE p \in DOMAIN vals :
        /\ vals[p] # <<>>
        /\ Num(vals[p][1]) = SeriesMax(vals)
        /\ \A j \in 1..(p - 1) : vals[j] = <<>> \/ vals[j][1] # vals[p][1]

\* the last position holding the minimum
ArgMin_m(vals) ==
    CHOOSE p \in DOMAIN vals :
        /\ vals[p] # <<>>
        /\ Num(vals[p][1]) = SeriesMin(vals)
        /\ \A j \in (p + 1)..Len(vals) : vals[j] = <<>> \/ vals[j][1] # vals[p][1]

ArgMin(vals) ==
    CHOOSE p \in DOMAIN vals :
        /\ vals[p] # <<>>
        /\ Num(vals[p][1]) = SeriesMin(vals)
        /\ \A j \in 1..(p - 1) : vals[j] = <<>> \/ vals[j][1] # vals[p][1]

\* Pearson correlation of two columns over the rows where both are present
\* (DataFrame.corr with min_periods = 1, Series.corr): the float
\* s * sqrt(n / d), nan (d = 0) when a variance is zero or no row is complete.
Corr(x, y) ==
    LET both(i) == x[i] # <<>> /\ y[i] # <<>>
        xv(i) == IF both(i) THEN x[i][1] ELSE 0
        yv(i) == IF both(i) THEN y[i][1] ELSE 0
        k == Cardinality({i \in DOMAIN x : both(i)})
        sx == SumSeq([i \in DOMAIN x |-> xv(i)])
        sy == SumSeq([i \in DOMAIN x |-> yv(i)])
        sxy == SumSeq([i \in DOMAIN x |-> xv(i) * yv(i)])
        sxx == SumSeq([i \in DOMAIN x |-> xv(i) * xv(i)])
        syy == SumSeq([i \in DOMAIN x |-> yv(i) * yv(i)])
        cov == k * sxy - sx * sy
        vx == k * sxx - sx * sx
        vy == k * syy - sy * sy
        r2 == Rat(cov * cov, vx * vy)
    IN  IF k = 0 \/ vx * vy = 0 THEN [s |-> 0, n |-> 0, d |-> 0]
        ELSE [s |-> IF cov < 0 THEN -1 ELSE IF cov > 0 THEN 1 ELSE 0,
              n |-> r2.n, d |-> r2.d]

\* the comparison with >= in place of >
AbsGreater_m(a, b) == a.d # 0 /\ b.d # 0 /\ a.n * b.d >= b.n * a.d

\* abs(a) > abs(b) on correlation coefficients; False when either is nan
AbsGreater(a, b) == a.d # 0 /\ b.d # 0 /\ a.n * b.d > b.n * a.d

-----------------------------------------------------------------------------
(* DataFrame *)

NRows(d) == Len(d.index)

ColNames(d) == [i \in DOMAIN d.columns |-> d.columns[i].name]

InSeq(x, s) == \E i \in DOMAIN s : s[i] = x

\* df[name]: the cells of the column called name
ColVals(d, name) ==
    d.columns[CHOOSE i \in DOMAIN d.columns : d.columns[i].name = name].vals

NamesOf(cols) == [i \in DOMAIN cols |-> cols[i].name]

\* df.select_dtypes(include=[np.number]).columns.tolist()
NumericCols(d) == NamesOf(SelectSeq(d.columns, LAMBDA c : c.dtype = "number"))

\* df.select_dtypes(include=['object']): the object columns alone
CategoricalCols_m(d) == NamesOf(SelectSeq(d.columns, LAMBDA c : c.dtype = "object"))

\* df.select_dtypes(exclude=[np.number]).columns.tolist()
CategoricalCols(d) == NamesOf(SelectSeq(d.columns, LAMBDA c : c.dtype # "number"))

\* df.select_dtypes(include=['datetime']).columns.tolist()
DatetimeCols(d) == NamesOf(SelectSeq(d.columns, LAMBDA c : c.dtype = "datetime"))

\* df.loc[label] on a unique index: the cells of the row carrying the label
Loc(d, label) ==
    LET p == CHOOSE i \in DOMAIN d.index : d.index[i] = label
    IN  [j \in DOMAIN d.columns |-> d.columns[j].vals[p]]

\* descending in place of ascending
KeyLE_m(a, b) == b = <<>> \/ (a # <<>> /\ b[1] <= a[1])

\* sort key order of sort_values: ascending, missing cells last
KeyLE(a, b) == b = <<>> \/ (a # <<>> /\ a[1] <= b[1])

\* df.sort_values(by=...): the orders of the row positions the sort may
\* produce; rows with equal keys come in an order the (unstable) sort picks
RECURSIVE SortOrders(_, _)
SortOrders(keys, S) ==
    IF S = {} THEN {<<>>}
    ELSE UNION { { <<m>> \o rest : rest \in SortOrders(keys, S \ {m}) } :
                 m \in {p \in S : \A r \in S : KeyLE(keys[p], keys[r])} }

-----------------------------------------------------------------------------
(* Column resolution *)

\* Python's None for target_col / time_col
NoneCol == <<"None">>

\* `if target_col` : neither None nor the empty string
Truthy(t) == t # NoneCol /\ t # <<>>

\* the loop without its break: the last matching column is kept
FindTargetCol_m(ql, cols) ==
    LET m == {i \in DOMAIN cols : Contains(ql, LowerStr(cols[i]))}
    IN  IF m = {} THEN NoneCol
        ELSE cols[CHOOSE i \in m : \A j \in m : j <= i]

\* for col in df.columns: if col.lower() in query_lower: target_col = col; break
FindTargetCol(ql, cols) ==
    LET m == {i \in DOMAIN cols : Contains(ql, LowerStr(cols[i]))}
    IN  IF m = {} THEN NoneCol
        ELSE cols[CHOOSE i \in m : \A j \in m : i <= j]

\* the test without col.lower()
ColumnsToCompare_m(ql, cols) ==
    SelectSeq(cols, LAMBDA c : Contains(ql, c))

\* columns_to_compare: every column whose lowercased name occurs in the query
ColumnsToCompare(ql, cols) ==
    SelectSeq(cols, LAMBDA c : Contains(ql, LowerStr(c)))

\* the name test made before the dtype test
FindTimeCol_m(d) ==
    LET dt == DatetimeCols(d)
        cols == ColNames(d)
        m == {i \in DOMAIN cols : AnyWordIn(DateWords, LowerStr(cols[i]))}
    IN  IF m # {} THEN cols[CHOOSE i \in m : \A j \in m : i <= j]
        ELSE IF dt # <<>> THEN dt[1]
        ELSE NoneCol

\* time_col of the trend branch: the first datetime column, else the first
\* column whose lowercased name contains a date word
FindTimeCol(d) ==
    LET dt == DatetimeCols(d)
        cols == ColNames(d)
        m == {i \in DOMAIN cols : AnyWordIn(DateWords, LowerStr(cols[i]))}
        first == IF dt # <<>> THEN dt[1] ELSE NoneCol
    IN  IF Truthy(first) THEN first
        ELSE IF m = {} THEN NoneCol
        ELSE cols[CHOOSE i \in m : \A j \in m : i <= j]

-----------------------------------------------------------------------------
(* What query_data_with_ai returns *)

NoChart == [kind |-> "None", x |-> NoneCol, y |-> NoneCol, vline |-> <<>>, dims |-> <<>>]

Chart(kind, x, y, vline, dims) ==
    [kind |-> kind, x |-> x, y |-> y, vline |-> vline, dims |-> dims]

\* the response text: its heading or fixed message, the columns it names, the
\* statistics it reports, the row it lists and the per-column or per-group table
Resp(text, cols, vals, row, table) ==
    [text |-> text, cols |-> cols, vals |-> vals, row |-> row, table |-> table]

Msg(text) == Resp(text, <<>>, <<>>, <<>>, <<>>)

\* a normal return of (response, visualization)
Returned(response, visualization) ==
    [status |-> "returned", response |-> response,
     visualization |-> visualization, error |-> "None"]

\* the call ends in an exception
Raised(error) ==
    [status |-> "raised", response |-> Msg(""),
     visualization |-> NoChart, error |-> error]

-----------------------------------------------------------------------------
(* Formatting a float with ':.2f' *)

Digit(k) == <<"0", "1", "2", "3", "4", "5", "6", "7", "8", "9">>[k + 1]

\* the decimal digits of a natural number
RECURSIVE Digits(_)
Digits(k) == IF k < 10 THEN <<Digit(k)>> ELSE Digits(k \div 10) \o <<Digit(k % 10)>>

\* the hundredths cut off in place of rounded
Hundredths_m(num, den) == (num * 100) \div den

\* the hundredths nearest to num / den, num >= 0 and den > 0; a value half
\* way between two goes to the even one
Hundredths(num, den) ==
    LET q == (num * 100) \div den
        r == (num * 100) % den
    IN  IF 2 * r > den \/ (2 * r = den /\ q % 2 = 1) THEN q + 1 ELSE q

\* f"{x:.2f}"
Format2f(x) ==
    IF IsNaN(x) THEN <<"n", "a", "n">>
    ELSE IF x.d = 0 THEN (IF x.n < 0 THEN <<"-">> ELSE <<>>) \o <<"i", "n", "f">>
    ELSE LET h == Hundredths(Abs(x.n), x.d)
         IN  (IF x.n < 0 THEN <<"-">> ELSE <<>>) \o Digits(h \div 100) \o
             <<".", Digit((h % 100) \div 10), Digit(h % 10)>>

-----------------------------------------------------------------------------
(* Program constants *)

\* numeric_cols[:4]
ScatterMatrixDims == 4
\* value_counts.head(5)
TopValues == 5
\* categorical_cols[:5]
CategoricalOverview == 5

Min2(a, b) == IF a < b THEN a ELSE b

CellNum(c) == IF c = <<>> THEN NaN ELSE Num(c[1])

-----------------------------------------------------------------------------
(* The branches of query_data_with_ai *)

\* "summarize" / "summary" / "overview" / "describe"
SummaryBranch(d) ==
    LET num == NumericCols(d)
        line(c) ==
            IF c.dtype = "number"
            THEN <<SeriesMin(c.vals), SeriesMax(c.vals), Mean(c.vals), Median(c.vals)>>
            ELSE IF c.dtype = "datetime"
            THEN <<SeriesMin(c.vals), SeriesMax(c.vals)>>
            ELSE <<Num(Nunique(c.vals))>>
    IN  Returned(
            Resp("## Data Summary", ColNames(d),
                 <<Num(NRows(d)), Num(Len(d.columns))>>, <<>>,
                 [i \in DOMAIN d.columns |-> line(d.columns[i])]),
            IF Len(num) >= 2
            THEN Chart("scatter_matrix", NoneCol, NoneCol, <<>>,
                       SubSeq(num, 1, Min2(ScatterMatrixDims, Len(num))))
            ELSE NoChart)

\* the response with the text its value is written with
Shown(response, shown) ==
    [text |-> response.text, cols |-> response.cols, vals |-> response.vals,
     row |-> response.row, table |-> response.table, shown |-> shown]

\* the column looked for among the numeric columns
MeanBranch_m(ql, d) ==
    LET target_col == FindTargetCol(ql, NumericCols(d))
    IN  IF Truthy(target_col)
        THEN LET mean_val == Mean(ColVals(d, target_col))
             IN  Returned(
                     Shown(Resp("## Average Analysis", <<target_col>>, <<mean_val>>, <<>>, <<>>),
                           Format2f(mean_val)),
                     Chart("histogram", target_col, NoneCol, <<mean_val>>, <<>>))
        ELSE Returned(
                 Msg("I couldn't identify which numeric column you want to find the average for. Please specify a numeric column name."),
                 NoChart)

\* "average" / "mean"
MeanBranch(ql, d) ==
    LET target_col == FindTargetCol(ql, ColNames(d))
    IN  IF Truthy(target_col) /\ InSeq(target_col, NumericCols(d))
        THEN LET mean_val == Mean(ColVals(d, target_col))
             IN  Returned(
                     Shown(Resp("## Average Analysis", <<target_col>>, <<mean_val>>, <<>>, <<>>),
                           Format2f(mean_val)),
                     Chart("histogram", target_col, NoneCol, <<mean_val>>, <<>>))
        ELSE Returned(
                 Msg("I couldn't identify which numeric column you want to find the average for. Please specify a numeric column name."),
                 NoChart)

\* "median"
MedianBranch(ql, d) ==
    LET target_col == FindTargetCol(ql, ColNames(d))
    IN  IF Truthy(target_col) /\ InSeq(target_col, NumericCols(d))
        THEN LET median_val == Median(ColVals(d, target_col))
             IN  Returned(
                     Shown(Resp("## Median Analysis", <<target_col>>, <<median_val>>, <<>>, <<>>),
                           Format2f(median_val)),
                     Chart("histogram", target_col, NoneCol, <<median_val>>, <<>>))
        ELSE Returned(
                 Msg("I couldn't identify which numeric column you want to find the median for. Please specify a numeric column name."),
                 NoChart)

\* Series.idxmax(): the label of the first row holding the maximum.  On an
\* empty column argmax raises ValueError; on a column without any value
\* present idxmax returns nan, which is no label of the index.
IdxMax(d, vals) ==
    IF Dropna(vals) = <<>> THEN <<>> ELSE <<d.index[ArgMax(vals)]>>

\* Series.idxmin()
IdxMin(d, vals) ==
    IF Dropna(vals) = <<>> THEN <<>> ELSE <<d.index[ArgMin(vals)]>>

\* "maximum" / "max"
MaxBranch(ql, d) ==
    LET target_col == FindTargetCol(ql, ColNames(d))
    IN  IF Truthy(target_col) /\ InSeq(target_col, NumericCols(d))
        THEN LET vals == ColVals(d, target_col)
                 max_val == SeriesMax(vals)
                 label == IdxMax(d, vals)
             IN  IF vals = <<>> THEN Raised("ValueError")
                 ELSE IF label = <<>> THEN Raised("KeyError")
                 ELSE Returned(
                          Resp("## Maximum Analysis", <<target_col>>, <<max_val>>,
                               Loc(d, label[1]), <<>>),
                          Chart("histogram", target_col, NoneCol, <<max_val>>, <<>>))
        ELSE Returned(
                 Msg("I couldn't identify which numeric column you want to find the maximum for. Please specify a numeric column name."),
                 NoChart)

\* "minimum" / "min"
MinBranch(ql, d) ==
    LET target_col == FindTargetCol(ql, ColNames(d))
    IN  IF Truthy(target_col) /\ InSeq(target_col, NumericCols(d))
        THEN LET vals == ColVals(d, target_col)
                 min_val == SeriesMin(vals)
                 label == IdxMin(d, vals)
             IN  IF vals = <<>> THEN Raised("ValueError")
                 ELSE IF label = <<>> THEN Raised("KeyError")
                 ELSE Returned(
                          Resp("## Minimum Analysis", <<target_col>>, <<min_val>>,
                               Loc(d, label[1]), <<>>),
                          Chart("histogram", target_col, NoneCol, <<min_val>>, <<>>))
        ELSE Returned(
                 Msg("I couldn't identify which numeric column you want to find the minimum for. Please specify a numeric column name."),
                 NoChart)

\* abs() of a correlation coefficient
AbsCorr(r) == [s |-> Abs(r.s), n |-> r.n, d |-> r.d]

\* the position of a name in a list of names
IndexOf(names, name) == CHOOSE i \in DOMAIN names : names[i] = name

\* df[numeric_cols].corr()
CorrMatrix(d) ==
    LET num == NumericCols(d)
    IN  [i \in DOMAIN num |->
            [j \in DOMAIN num |-> Corr(ColVals(d, num[i]), ColVals(d, num[j]))]]

\* the nested loops over corr_matrix.columns, from the k-th ordered pair on;
\* st holds highest_corr (as a coefficient), col1_highest and col2_highest
RECURSIVE HighestScan(_, _, _, _)
HighestScan(M, num, k, st) ==
    LET K == Len(num)
        i == ((k - 1) \div K) + 1
        j == ((k - 1) % K) + 1
    IN  IF k > K * K THEN st
        ELSE HighestScan(M, num, k + 1,
                 IF num[i] # num[j] /\ AbsGreater(M[i][j], st.highest_corr)
                 THEN [highest_corr |-> AbsCorr(M[i][j]), col1 |-> num[i], col2 |-> num[j]]
                 ELSE st)

\* highest_corr = 0, col1_highest = "", col2_highest = "" and the two loops
HighestCorrelation(M, num) ==
    HighestScan(M, num, 1,
        [highest_corr |-> [s |-> 0, n |-> 0, d |-> 1], col1 |-> <<>>, col2 |-> <<>>])

\* the guard with 1 in place of 2
EnoughNumeric_m(num) == Len(num) >= 1

\* if len(numeric_cols) >= 2
EnoughNumeric(num) == Len(num) >= 2

\* "correlation" / "correlate"
CorrelationBranch(d) ==
    LET num == NumericCols(d)
    IN  IF EnoughNumeric(num)
        THEN LET M == CorrMatrix(d)
                 st == HighestCorrelation(M, num)
             IN  IF ~InSeq(st.col1, num) \/ ~InSeq(st.col2, num)
                 THEN Raised("KeyError")
                 ELSE Returned(
                          Resp("## Correlation Analysis", <<st.col1, st.col2>>,
                               <<M[IndexOf(num, st.col1)][IndexOf(num, st.col2)]>>,
                               <<>>, M),
                          Chart("scatter", st.col1, st.col2, <<>>, <<>>))
        ELSE Returned(
                 Msg("The dataset doesn't have enough numeric columns to perform correlation analysis."),
                 NoChart)

\* "distribution" / "histogram" / "spread" / "range"
DistributionBranch(ql, d) ==
    LET target_col == FindTargetCol(ql, ColNames(d))
    IN  IF Truthy(target_col)
        THEN LET vals == ColVals(d, target_col)
             IN  IF InSeq(target_col, NumericCols(d))
                 THEN Returned(
                          Resp("## Distribution Analysis", <<target_col>>,
                               <<Mean(vals), Median(vals), StdSquared(vals),
                                 SeriesMin(vals), SeriesMax(vals)>>, <<>>, <<>>),
                          Chart("histogram_box", target_col, NoneCol, <<>>, <<>>))
                 ELSE IF InSeq(target_col, CategoricalCols(d))
                 THEN LET value_counts == ValueCounts(vals)
                          head == SubSeq(value_counts, 1, Min2(TopValues, Len(value_counts)))
                      IN  Returned(
                              Resp("## Distribution Analysis", <<target_col>>,
                                   <<Num(Len(value_counts))>>, <<>>,
                                   [i \in DOMAIN head |->
                                       <<Num(head[i]), Rat(head[i] * 100, NRows(d))>>]),
                              Chart("bar", target_col, NoneCol, <<>>, <<>>))
                 ELSE Returned(Msg(""), NoChart)
        ELSE Returned(
                 Msg("I couldn't identify which column you want to analyze. Please specify a column name."),
                 NoChart)

\* df.groupby(cat_col)[num_col].agg(['mean', 'median', 'min', 'max']): one
\* line per value present in cat_col, in ascending order of the value
GroupStats(cat, num) ==
    LET keys == SortedSeq({cat[i][1] : i \in {r \in DOMAIN cat : cat[r] # <<>>}})
        grp(key) == SelectSeq([i \in DOMAIN num |->
                                  IF cat[i] = <<key>> THEN num[i] ELSE <<>>],
                              LAMBDA c : c # <<>>)
    IN  [k \in DOMAIN keys |->
            <<Num(keys[k]), Mean(grp(keys[k])), Median(grp(keys[k])),
              SeriesMin(grp(keys[k])), SeriesMax(grp(keys[k]))>>]

\* pd.crosstab(df[col1], df[col2]): counts over the rows where both are present
Crosstab(a, b) ==
    LET P == {i \in DOMAIN a : a[i] # <<>> /\ b[i] # <<>>}
        ra == SortedSeq({a[i][1] : i \in P})
        rb == SortedSeq({b[i][1] : i \in P})
    IN  [i \in DOMAIN ra |-> [j \in DOMAIN rb |->
            Cardinality({r \in P : a[r][1] = ra[i] /\ b[r][1] = rb[j]})]]

\* "compare" / "comparison" / "difference" / "versus" / "vs"
ComparisonBranch(ql, d) ==
    LET columns_to_compare == ColumnsToCompare(ql, ColNames(d))
        numeric_cols == NumericCols(d)
        categorical_cols == CategoricalCols(d)
    IN  IF Len(columns_to_compare) >= 2
        THEN LET col1 == columns_to_compare[1]
                 col2 == columns_to_compare[2]
                 v1 == ColVals(d, col1)
                 v2 == ColVals(d, col2)
             IN  IF InSeq(col1, numeric_cols) /\ InSeq(col2, numeric_cols)
                 THEN Returned(
                          Resp("## Comparison: numeric", <<col1, col2>>,
                               <<Mean(v1), Median(v1), SeriesMin(v1), SeriesMax(v1),
                                 Mean(v2), Median(v2), SeriesMin(v2), SeriesMax(v2)>>,
                               <<>>, <<Corr(v1, v2)>>),
                          Chart("scatter", col1, col2, <<>>, <<>>))
                 ELSE IF (InSeq(col1, categorical_cols) /\ InSeq(col2, numeric_cols))
                         \/ (InSeq(col1, numeric_cols) /\ InSeq(col2, categorical_cols))
                 THEN LET cat_col == IF InSeq(col1, categorical_cols) THEN col1 ELSE col2
                          num_col == IF InSeq(col1, categorical_cols) THEN col2 ELSE col1
                      IN  Returned(
                              Resp("## Comparison: groups", <<col1, col2>>, <<>>, <<>>,
                                   GroupStats(ColVals(d, cat_col), ColVals(d, num_col))),
                              Chart("box", cat_col, num_col, <<>>, <<>>))
                 ELSE IF InSeq(col1, categorical_cols) /\ InSeq(col2, categorical_cols)
                 THEN Returned(
                          Resp("## Comparison: contingency", <<col1, col2>>, <<>>, <<>>,
                               Crosstab(v1, v2)),
                          Chart("heatmap", col2, col1, <<>>, <<>>))
                 ELSE Returned(Resp("## Comparison", <<col1, col2>>, <<>>, <<>>, <<>>), NoChart)
        ELSE Returned(
                 Msg("I couldn't identify which columns you want to compare. Please specify both column names."),
                 NoChart)

\* the division without the guard: in numpy floats 0 / 0 is nan
PctChange_m(first_val, last_val) ==
    IF first_val = Num(0)
    THEN IF last_val = Num(0) \/ IsNaN(last_val) THEN NaN ELSE Inf
    ELSE IF IsNaN(first_val) \/ IsNaN(last_val) THEN NaN
    ELSE IF first_val.n > 0
    THEN Rat((last_val.n - first_val.n) * 100, first_val.n)
    ELSE Rat((first_val.n - last_val.n) * 100, -first_val.n)

\* pct_change = ((last_val - first_val) / first_val) * 100 if first_val != 0
\*              else float('inf')
PctChange(first_val, last_val) ==
    IF first_val = Num(0) THEN Inf
    ELSE IF IsNaN(first_val) \/ IsNaN(last_val) THEN NaN
    ELSE IF first_val.n > 0
    THEN Rat((last_val.n - first_val.n) * 100, first_val.n)
    ELSE Rat((first_val.n - last_val.n) * 100, -first_val.n)

\* last_val - first_val
Change(first_val, last_val) ==
    IF IsNaN(first_val) \/ IsNaN(last_val) THEN NaN
    ELSE Num(last_val.n - first_val.n)

\* without the default to the first numeric column
TrendTargetCol_m(ql, numeric_cols) == FindTargetCol(ql, numeric_cols)

\* target_col of the trend branch: the first numeric column named in the
\* query, else the first numeric column
TrendTargetCol(ql, numeric_cols) ==
    LET named == FindTargetCol(ql, numeric_cols)
    IN  IF ~Truthy(named) /\ numeric_cols # <<>> THEN numeric_cols[1] ELSE named

\* the rows of the frame d in the given order of positions, as a new frame
Take(d, order) ==
    [columns |-> [j \in DOMAIN d.columns |->
                     [name |-> d.columns[j].name, dtype |-> d.columns[j].dtype,
                      vals |-> [i \in DOMAIN order |-> d.columns[j].vals[order[i]]]]],
     index |-> [i \in DOMAIN order |-> d.index[order[i]]]]

\* the sort made in place (inplace=True)
SortValues_m(d, order) == [df_sorted |-> Take(d, order), df |-> Take(d, order)]

\* df_sorted = df.sort_values(by=time_col), the sort giving the rows the
\* order: df_sorted is a new frame, df is left as it was (inplace=False)
SortValues(d, order) == [df_sorted |-> Take(d, order), df |-> d]

\* a branch that only reads df ends with outcome o
Reads(d, o) == [out |-> o, df |-> d]

\* "trend" / "time" / "over time" / "change" / "evolution": the outcomes the
\* call may have, one per order the sort may give to rows with equal keys,
\* each with df as the branch leaves it
TrendBranch(ql, d) ==
    LET time_col == FindTimeCol(d)
        numeric_cols == NumericCols(d)
        target_col == TrendTargetCol(ql, numeric_cols)
    IN  IF Truthy(time_col)
        THEN IF Truthy(target_col)
             THEN { LET s == SortValues(d, order)
                        vals == ColVals(s.df_sorted, target_col)
                        first_val == CellNum(vals[1])
                        last_val == CellNum(vals[Len(vals)])
                    IN  IF NRows(d) = 0 THEN [out |-> Raised("IndexError"), df |-> s.df]
                        ELSE [out |-> Returned(
                                 Resp("## Trend Analysis", <<target_col, time_col>>,
                                      <<first_val, last_val, Change(first_val, last_val),
                                        PctChange(first_val, last_val)>>, <<>>, order),
                                 Chart("line", time_col, target_col, <<>>, <<>>)),
                              df |-> s.df]
                    : order \in SortOrders(ColVals(d, time_col), DOMAIN d.index) }
             ELSE {Reads(d, Returned(
                      Msg("I couldn't identify which value you want to track over time. Please specify a numeric column name."),
                      NoChart))}
        ELSE {Reads(d, Returned(
                 Msg("I couldn't find a suitable time or date column in the data to analyze trends."),
                 NoChart))}

\* anything else.  value_counts.iloc[0] raises IndexError for a categorical
\* column (among the first five) in which no value is present.
FallbackBranch(d) ==
    LET numeric_cols == NumericCols(d)
        categorical_cols == CategoricalCols(d)
        shown == SubSeq(categorical_cols, 1,
                        Min2(CategoricalOverview, Len(categorical_cols)))
    IN  IF \E i \in DOMAIN shown : Dropna(ColVals(d, shown[i])) = <<>>
        THEN Raised("IndexError")
        ELSE Returned(
                 Resp("## Data Analysis", numeric_cols \o shown,
                      <<Num(NRows(d)), Num(Len(d.columns))>>, <<>>,
                      [i \in DOMAIN numeric_cols |->
                          <<SeriesMin(ColVals(d, numeric_cols[i])),
                            SeriesMax(ColVals(d, numeric_cols[i])),
                            Mean(ColVals(d, numeric_cols[i]))>>]
                      \o [i \in DOMAIN shown |->
                          <<Num(Nunique(ColVals(d, shown[i]))),
                            Num(ValueCounts(ColVals(d, shown[i]))[1])>>]),
                 IF Len(numeric_cols) >= 2
                 THEN Chart("heatmap", NoneCol, NoneCol, <<>>, numeric_cols)
                 ELSE IF numeric_cols # <<>>
                 THEN Chart("histogram", numeric_cols[1], NoneCol, <<>>, <<>>)
                 ELSE IF categorical_cols # <<>>
                 THEN Chart("bar", categorical_cols[1], NoneCol, <<>>, <<>>)
                 ELSE NoChart)

-----------------------------------------------------------------------------
(* The intent dispatch of query_data_with_ai *)

\* the chain with the distribution test moved before the statistical one
TopIntent_m(ql) ==
    IF AnyWordIn(SummaryWords, ql) THEN "summary"
    ELSE IF AnyWordIn(DistributionWords, ql) THEN "distribution"
    ELSE IF AnyWordIn(StatisticalWords, ql) THEN "statistical"
    ELSE IF AnyWordIn(ComparisonWords, ql) THEN "comparison"
    ELSE IF AnyWordIn(TrendWords, ql) THEN "trend"
    ELSE "fallback"

\* the if / elif chain over the keyword lists
TopIntent(ql) ==
    IF AnyWordIn(SummaryWords, ql) THEN "summary"
    ELSE IF AnyWordIn(StatisticalWords, ql) THEN "statistical"
    ELSE IF AnyWordIn(DistributionWords, ql) THEN "distribution"
    ELSE IF AnyWordIn(ComparisonWords, ql) THEN "comparison"
    ELSE IF AnyWordIn(TrendWords, ql) THEN "trend"
    ELSE "fallback"

\* the chain with the correlation test moved to the front
StatIntent_m(ql) ==
    IF Contains(ql, kw_correlation) \/ Contains(ql, kw_correlate) THEN "correlation"
    ELSE IF Contains(ql, kw_average) \/ Contains(ql, kw_mean) THEN "mean"
    ELSE IF Contains(ql, kw_median) THEN "median"
    ELSE IF Contains(ql, kw_maximum) \/ Contains(ql, kw_max) THEN "max"
    ELSE IF Contains(ql, kw_minimum) \/ Contains(ql, kw_min) THEN "min"
    ELSE "none"

\* the chain without its correlation test
StatIntent_gap(ql) ==
    IF Contains(ql, kw_average) \/ Contains(ql, kw_mean) THEN "mean"
    ELSE IF Contains(ql, kw_median) THEN "median"
    ELSE IF Contains(ql, kw_maximum) \/ Contains(ql, kw_max) THEN "max"
    ELSE IF Contains(ql, kw_minimum) \/ Contains(ql, kw_min) THEN "min"
    ELSE "none"

\* the if / elif chain inside the statistical branch ("none": no branch taken)
StatIntent(ql) ==
    IF Contains(ql, kw_average) \/ Contains(ql, kw_mean) THEN "mean"
    ELSE IF Contains(ql, kw_median) THEN "median"
    ELSE IF Contains(ql, kw_maximum) \/ Contains(ql, kw_max) THEN "max"
    ELSE IF Contains(ql, kw_minimum) \/ Contains(ql, kw_min) THEN "min"
    ELSE IF Contains(ql, kw_correlation) \/ Contains(ql, kw_correlate) THEN "correlation"
    ELSE "none"

\* query_data_with_ai(query, df): the outcomes the call may have, each with
\* the branch that produced it and with df, the caller's frame, as the call
\* leaves it.  create_data_profile(df) is evaluated first;
\* its text is discarded.
QueryDataWithAI(q, d) ==
    LET query_lower == LowerStr(q)
        intent == TopIntent(query_lower)
        sub == IF intent = "statistical" THEN StatIntent(query_lower) ELSE "none"
        outs ==
            CASE intent = "summary" -> {Reads(d, SummaryBranch(d))}
              [] intent = "statistical" /\ sub = "mean" -> {Reads(d, MeanBranch(query_lower, d))}
              [] intent = "statistical" /\ sub = "median" -> {Reads(d, MedianBranch(query_lower, d))}
              [] intent = "statistical" /\ sub = "max" -> {Reads(d, MaxBranch(query_lower, d))}
              [] intent = "statistical" /\ sub = "min" -> {Reads(d, MinBranch(query_lower, d))}
              [] intent = "statistical" /\ sub = "correlation" -> {Reads(d, CorrelationBranch(d))}
              [] intent = "statistical" /\ sub = "none" -> {Reads(d, Returned(Msg(""), NoChart))}
              [] intent = "distribution" -> {Reads(d, DistributionBranch(query_lower, d))}
              [] intent = "comparison" -> {Reads(d, ComparisonBranch(query_lower, d))}
              [] intent = "trend" -> TrendBranch(query_lower, d)
              [] OTHER -> {Reads(d, FallbackBranch(d))}
    IN  { [intent |-> intent, sub |-> sub, status |-> o.out.status,
           response |-> o.out.response, visualization |-> o.out.visualization,
           error |-> o.out.error, df |-> o.df] : o \in outs }

\* what the widgets of the sidebar and of the filter column hold before any
\* run with data: no sample size, no column selected
NoWidgets ==
    [sample_size |-> 0,
     category |-> [column |-> NoneCol, values |-> {}],
     range |-> [column |-> NoneCol, lo |-> NaN, hi |-> NaN, raises |-> FALSE]]

\* the session state of a new session: no data, no chart, no history
NoSession ==
    [data |-> <<>>, chart |-> NoChart, chat_history |-> <<>>, widgets |-> NoWidgets]

\* no call made yet
Idle ==
    [intent |-> "idle", sub |-> "none", status |-> "idle", response |-> Msg(""),
     visualization |-> NoChart, error |-> "None"]

-----------------------------------------------------------------------------
(* Datasets and queries of the model *)

RangeIndex(n) == [i \in 1..n |-> i - 1]

\* The columns datasets are built from, with n rows: a numeric column with a
\* capitalised name, an object column whose name contains the first one's and
\* a date word, a datetime column and a numeric column without any value.
Pool(n) ==
    << [name |-> <<"P", "r", "i", "c", "e">>, dtype |-> "number",
        vals |-> [i \in 1..n |-> <<(2 * i) % 3>>]],
       [name |-> <<"p", "r", "i", "c", "e", "_", "d", "a", "y">>, dtype |-> "object",
        vals |-> [i \in 1..n |-> <<i % 2>>]],
       [name |-> <<"w", "h", "e", "n">>, dtype |-> "datetime",
        vals |-> [i \in 1..n |-> <<n - i>>]],
       [name |-> <<"q", "t", "y">>, dtype |-> "number",
        vals |-> [i \in 1..n |-> <<>>]] >>

\* the dataset of Spec: the four columns, with n rows
Dataset(n) == [columns |-> Pool(n), index |-> RangeIndex(n)]

\* the fragments queries are made of
Fragments ==
    { <<"s", "u", "m", "m", "a", "r", "y">>,
      <<"m", "e", "a", "n">>,
      <<"m", "e", "d", "i", "a", "n">>,
      <<"m", "a", "x", "i", "m", "u", "m">>,
      <<"m", "i", "n", "i", "m", "u", "m">>,
      <<"m", "i", "n", "-", "m", "a", "x", " ", "r", "a", "n", "g", "e">>,
      <<"c", "o", "r", "r", "e", "l", "a", "t", "e">>,
      <<"q", "t", "y", " ", "v", "s", " ", "w", "h", "e", "n">>,
      <<"o", "v", "e", "r", " ", "t", "i", "m", "e">>,
      <<"P", "r", "i", "c", "e", "_", "D", "a", "y">> }

\* the queries of at most k fragments of F, joined by blanks
RECURSIVE QueriesOf(_, _)
QueriesOf(F, k) ==
    IF k = 0 THEN {<<>>}
    ELSE LET shorter == QueriesOf(F, k - 1)
         IN  shorter \cup
             { IF q = <<>> THEN f ELSE q \o <<" ">> \o f :
                 q \in shorter, f \in F }

Queries == QueriesOf(Fragments, MaxFrags)

-----------------------------------------------------------------------------
(* The state machine: one dataset, one call of query_data_with_ai *)

Init ==
    /\ \E n \in 0..MaxRows : df = Dataset(n)
    /\ query = <<>>
    /\ session_state = NoSession
    /\ result = Idle

\* response, chart = query_data_with_ai(q, df)
Ask(q) ==
    /\ query' = q
    /\ \E o \in QueryDataWithAI(q, df) :
          /\ result' = [intent |-> o.intent, sub |-> o.sub, status |-> o.status,
                        response |-> o.response, visualization |-> o.visualization,
                        error |-> o.error]
          /\ df' = o.df
    /\ UNCHANGED session_state

\* the call is made once, with any query of the model
Next ==
    /\ result = Idle
    /\ \E q \in Queries : Ask(q)

Spec == Init /\ [][Next]_vars

-----------------------------------------------------------------------------
(* Column resolution: datasets of any columns in any order *)

\* the sequences of at most k distinct elements of S
RECURSIVE InjSeqs(_, _)
InjSeqs(S, k) ==
    IF k = 0 THEN {<<>>}
    ELSE LET shorter == InjSeqs(S, k - 1)
         IN  shorter \cup
             UNION { { Append(s, x) : x \in S \ {s[i] : i \in DOMAIN s} } :
                     s \in {t \in shorter : Len(t) = k - 1} }

\* the dataset of n rows with the columns cs of the pool, in that order
ColDataset(cs, n) ==
    [columns |-> [i \in DOMAIN cs |-> Pool(n)[cs[i]]], index |-> RangeIndex(n)]

\* how a query starts: one phrase per branch that looks at the columns
IntentFragments ==
    { <<"W", "h", "a", "t", " ", "i", "s", " ", "t", "h", "e", " ", "a", "v", "e", "r", "a", "g", "e", " ", "o", "f">>,
      <<"m", "e", "d", "i", "a", "n">>,
      <<"m", "a", "x", "i", "m", "u", "m">>,
      <<"m", "i", "n", "i", "m", "u", "m">>,
      <<"h", "i", "s", "t", "o", "g", "r", "a", "m", " ", "o", "f">>,
      <<"c", "o", "m", "p", "a", "r", "e">>,
      <<"t", "r", "e", "n", "d", " ", "o", "v", "e", "r", " ", "t", "i", "m", "e">>,
      <<"c", "o", "r", "r", "e", "l", "a", "t", "i", "o", "n">>,
      <<"t", "e", "l", "l", " ", "m", "e", " ", "a", "b", "o", "u", "t">> }

\* the column names a query mentions
ColumnFragments ==
    { <<"P", "R", "I", "C", "E">>,
      <<"P", "r", "i", "c", "e", "_", "D", "a", "y">>,
      <<"q", "t", "y", " ", "v", "s", " ", "w", "h", "e", "n">> }

ColQueries ==
    { IF m = <<>> THEN f ELSE f \o <<" ">> \o m :
        f \in IntentFragments, m \in QueriesOf(ColumnFragments, MaxMentions) }

InitCols ==
    /\ \E cs \in InjSeqs(DOMAIN Pool(0), MaxCols) : \E n \in 0..MaxRows :
          df = ColDataset(cs, n)
    /\ query = <<>>
    /\ session_state = NoSession
    /\ result = Idle

NextCols ==
    /\ result = Idle
    /\ \E q \in ColQueries : Ask(q)

SpecCols == InitCols /\ [][NextCols]_vars

-----------------------------------------------------------------------------
(* Extremum queries over the values of one numeric column *)

ExtMaxRows == 4
ExtMaxVal == 4

ExtCells == {<<>>} \cup {<<x>> : x \in 0..ExtMaxVal}

\* a numeric column "score" with the cells v and an object column "name"
\* that tells the rows apart
ExtDataset(v) ==
    [columns |->
        << [name |-> <<"s", "c", "o", "r", "e">>, dtype |-> "number", vals |-> v],
           [name |-> <<"n", "a", "m", "e">>, dtype |-> "object",
            vals |-> [i \in 1..Len(v) |-> <<i - 1>>]] >>,
     index |-> RangeIndex(Len(v))]

\* the column of values 3, 1, 4, 1, 5
PiDigits == << <<3>>, <<1>>, <<4>>, <<1>>, <<5>> >>

ExtQueries ==
    { <<"W", "h", "a", "t", " ", "i", "s", " ", "t", "h", "e", " ", "M", "A", "X", "I", "M", "U", "M", " ", "s", "c", "o", "r", "e", "?">>,
      <<"m", "i", "n", "i", "m", "u", "m", " ", "o", "f", " ", "S", "c", "o", "r", "e">> }

InitExt ==
    /\ \/ \E n \in 0..ExtMaxRows : \E v \in [1..n -> ExtCells] : df = ExtDataset(v)
       \/ df = ExtDataset(PiDigits)
    /\ query = <<>>
    /\ session_state = NoSession
    /\ result = Idle

NextExt ==
    /\ result = Idle
    /\ \E q \in ExtQueries : Ask(q)

SpecExt == InitExt /\ [][NextExt]_vars

-----------------------------------------------------------------------------
(* Correlation queries over three numeric columns *)

CorrMaxRows == 3
CorrMaxVal == 1

CorrValues == {<<x>> : x \in 0..CorrMaxVal}
CorrCells == {<<>>} \cup CorrValues

\* numeric columns "a" (cells va, some possibly missing) and "b" (cells vb,
\* all present) and a numeric column "c" holding 0, 1, 2, ...
CorrDataset(va, vb) ==
    [columns |->
        << [name |-> <<"a">>, dtype |-> "number", vals |-> va],
           [name |-> <<"b">>, dtype |-> "number", vals |-> vb],
           [name |-> <<"c">>, dtype |-> "number",
            vals |-> [i \in 1..Len(va) |-> <<i - 1>>]] >>,
     index |-> RangeIndex(Len(va))]

CorrQueries ==
    { <<"c", "o", "r", "r", "e", "l", "a", "t", "i", "o", "n">>,
      <<"H", "o", "w", " ", "d", "o", " ", "t", "h", "e", "y", " ", "c", "o", "r", "r", "e", "l", "a", "t", "e", "?">> }

InitCorr ==
    /\ \E n \in 0..CorrMaxRows :
          \E va \in [1..n -> CorrCells], vb \in [1..n -> CorrValues] :
              df = CorrDataset(va, vb)
    /\ query = <<>>
    /\ session_state = NoSession
    /\ result = Idle

NextCorr ==
    /\ result = Idle
    /\ \E q \in CorrQueries : Ask(q)

SpecCorr == InitCorr /\ [][NextCorr]_vars

-----------------------------------------------------------------------------
(* Trend queries: a time column and a value column with any cells *)

TrendMaxRows == 3
TrendMaxTime == 1
TrendMaxVal == 1

TimeCells == {<<>>} \cup {<<t>> : t \in 0..TrendMaxTime}
ValueCells == {<<>>} \cup {<<v>> : v \in 0..TrendMaxVal}

\* a datetime column "when" with the cells vt and a numeric column "sales"
\* with the cells vv
TrendDataset(vt, vv) ==
    [columns |->
        << [name |-> <<"w", "h", "e", "n">>, dtype |-> "datetime", vals |-> vt],
           [name |-> <<"s", "a", "l", "e", "s">>, dtype |-> "number", vals |-> vv] >>,
     index |-> RangeIndex(Len(vt))]

TrendQueries ==
    { <<"t", "r", "e", "n", "d">>,
      <<"H", "o", "w", " ", "d", "i", "d", " ", "S", "a", "l", "e", "s", " ", "C", "H", "A", "N", "G", "E", "?">> }

InitTrend ==
    /\ \E n \in 0..TrendMaxRows :
          \E vt \in [1..n -> TimeCells], vv \in [1..n -> ValueCells] :
              df = TrendDataset(vt, vv)
    /\ query = <<>>
    /\ session_state = NoSession
    /\ result = Idle

NextTrend ==
    /\ result = Idle
    /\ \E q \in TrendQueries : Ask(q)

SpecTrend == InitTrend /\ [][NextTrend]_vars

-----------------------------------------------------------------------------
(* Trend queries: which columns are taken, over datasets of any columns *)

\* The columns the datasets are built from, with n rows: two datetime
\* columns, an object column and a numeric column with a date word in their
\* names, and a numeric column without one.
TrendPool(n) ==
    << [name |-> <<"w", "h", "e", "n">>, dtype |-> "datetime", vals |-> [i \in 1..n |-> <<n - i>>]],
       [name |-> <<"s", "t", "a", "m", "p">>, dtype |-> "datetime", vals |-> [i \in 1..n |-> <<i>>]],
       [name |-> <<"B", "i", "r", "t", "h", "D", "a", "y">>, dtype |-> "object", vals |-> [i \in 1..n |-> <<i % 2>>]],
       [name |-> <<"Y", "e", "a", "r">>, dtype |-> "number", vals |-> [i \in 1..n |-> <<i + 1>>]],
       [name |-> <<"S", "a", "l", "e", "s">>, dtype |-> "number", vals |-> [i \in 1..n |-> <<(2 * i) % 3>>]] >>

TrendColDataset(cs, n) ==
    [columns |-> [i \in DOMAIN cs |-> TrendPool(n)[cs[i]]], index |-> RangeIndex(n)]

\* how a trend query starts
TrendPhrases ==
    { <<"t", "r", "e", "n", "d", " ", "o", "f">>,
      <<"E", "v", "o", "l", "u", "t", "i", "o", "n", " ", "o", "f">> }

\* the column names a trend query mentions
TrendMentions ==
    { <<"s", "a", "l", "e", "s">>,
      <<"Y", "E", "A", "R">>,
      <<"b", "i", "r", "t", "h", "d", "a", "y">> }

TrendColQueries ==
    { IF m = <<>> THEN f ELSE f \o <<" ">> \o m :
        f \in TrendPhrases, m \in QueriesOf(TrendMentions, MaxMentions) }

InitTrendCols ==
    /\ \E cs \in InjSeqs(DOMAIN TrendPool(0), MaxCols) : \E n \in 0..MaxRows :
          df = TrendColDataset(cs, n)
    /\ query = <<>>
    /\ session_state = NoSession
    /\ result = Idle

NextTrendCols ==
    /\ result = Idle
    /\ \E q \in TrendColQueries : Ask(q)

SpecTrendCols == InitTrendCols /\ [][NextTrendCols]_vars

-----------------------------------------------------------------------------
(* detect_data_types (data_processor.py) *)

\* An object cell holds a string or another Python object (a number, a bool,
\* a date); v is its text.
ObjStr(s) == [kind |-> "str", v |-> s]
ObjOther(s) == [kind |-> "other", v |-> s]

\* nunique() <= 2 of the boolean test
BooleanMaxUnique == 2
\* str.len().mean() > 50 of the text test
TextMeanLen == 50

\* pd.api.types.is_numeric_dtype: the number dtypes and bool
IsNumericDtype(dtype) == dtype \in {"number", "bool"}

\* the cells present
DropnaCells(vals) == SelectSeq(vals, LAMBDA c : c # <<>>)

\* the test on unique() without dropna(): nan is not in {0, 1, True, False}
ZeroOne_m(vals) == \A i \in DOMAIN vals : vals[i] # <<>> /\ vals[i][1] \in {0, 1}

\* set(df[col].dropna().unique()).issubset({0, 1, True, False}); True is 1
\* and False is 0
ZeroOne(vals) == \A i \in DOMAIN vals : vals[i] = <<>> \/ vals[i][1] \in {0, 1}

\* Series.str on an object column: the accessor is refused (AttributeError)
\* unless the values present are strings, or strings mixed with other
\* objects, or there is none
StrAccessor(vals) ==
    LET present == DropnaCells(vals)
    IN  present = <<>> \/ \E i \in DOMAIN present : present[i][1].kind = "str"

\* df[col].str.len().mean() > 50: the mean over the strings, nan (and the
\* test False) without strings
MeanLenAbove(vals, limit) ==
    LET strs == SelectSeq(DropnaCells(vals), LAMBDA c : c[1].kind = "str")
        lens == [i \in DOMAIN strs |-> Len(strs[i][1].v)]
    IN  strs # <<>> /\ SumSeq(lens) > limit * Len(strs)

\* df[col].nunique() > df.shape[0] * 0.5
MostlyUnique(vals) == 2 * Nunique(vals) > Len(vals)

\* the bucket one pass of the loop appends the column to, or the exception
\* the pass ends in
ColumnType(c) ==
    IF c.dtype = "datetime" THEN "datetime"
    ELSE IF IsNumericDtype(c.dtype)
    THEN IF Nunique(c.vals) <= BooleanMaxUnique /\ ZeroOne(c.vals)
         THEN "boolean" ELSE "numeric"
    ELSE IF c.dtype = "object"
    THEN IF MostlyUnique(c.vals) THEN "text"
         ELSE IF ~StrAccessor(c.vals) THEN "AttributeError"
         ELSE IF MeanLenAbove(c.vals, TextMeanLen) THEN "text"
         ELSE "categorical"
    ELSE "categorical"

Buckets == {"numeric", "categorical", "datetime", "text", "boolean"}

\* detect_data_types(df): column_types, or the exception of the first column
\* whose pass raises
DetectDataTypes(d) ==
    LET type == [i \in DOMAIN d.columns |-> ColumnType(d.columns[i])]
    IN  IF \E i \in DOMAIN type : type[i] \notin Buckets
        THEN [intent |-> "detect", sub |-> "none", status |-> "raised",
              response |-> Msg(""), visualization |-> NoChart,
              error |-> type[CHOOSE i \in DOMAIN type :
                                 /\ type[i] \notin Buckets
                                 /\ \A j \in 1..(i - 1) : type[j] \in Buckets],
              column_types |-> [b \in Buckets |-> <<>>]]
        ELSE [intent |-> "detect", sub |-> "none", status |-> "returned",
              response |-> Msg(""), visualization |-> NoChart, error |-> "None",
              column_types |->
                  [b \in Buckets |->
                      NamesOf(SelectSeq(d.columns, LAMBDA c : ColumnType(c) = b))]]

TypeMaxRows == 3
TypeMaxVal == 2
TypeMaxExtra == 2

\* the string of n characters x
Repeat(n) == [i \in 1..n |-> "x"]

\* the cells a column of each dtype may hold
CellsOf(dtype) ==
    CASE dtype = "number" -> {<<>>} \cup {<<v>> : v \in 0..TypeMaxVal}
      [] dtype = "bool" -> {<<0>>, <<1>>}
      [] dtype = "datetime" -> {<<>>, <<0>>, <<1>>}
      [] dtype = "category" -> {<<>>, <<0>>, <<1>>}
      [] dtype = "object" ->
            { <<>>, <<ObjStr(<<"a">>)>>, <<ObjStr(Repeat(TextMeanLen))>>,
              <<ObjStr(Repeat(TextMeanLen + 1))>>, <<ObjOther(<<"T", "r", "u", "e">>)>> }

Dtypes == {"number", "bool", "datetime", "category", "object"}

\* further columns of a dataset of n rows
ExtraColumns(n) ==
    << [name |-> <<"w", "h", "e", "n">>, dtype |-> "datetime", vals |-> [i \in 1..n |-> <<i>>]],
       [name |-> <<"q", "t", "y">>, dtype |-> "number", vals |-> [i \in 1..n |-> <<i + 1>>]],
       [name |-> <<"n", "o", "t", "e">>, dtype |-> "object",
        vals |-> [i \in 1..n |-> <<ObjStr(<<"a">>)>>]] >>

\* a column "x" of the dtype with the cells, followed by the first k further
\* columns
TypeDataset(dtype, cells, k) ==
    [columns |-> << [name |-> <<"x">>, dtype |-> dtype, vals |-> cells] >>
                     \o SubSeq(ExtraColumns(Len(cells)), 1, k),
     index |-> RangeIndex(Len(cells))]

InitTypes ==
    /\ \E n \in 0..TypeMaxRows : \E dtype \in Dtypes :
          \E cells \in [1..n -> CellsOf(dtype)] :
              \E k \in 0..TypeMaxExtra : df = TypeDataset(dtype, cells, k)
    /\ query = <<>>
    /\ session_state = NoSession
    /\ result = Idle

\* column_types = detect_data_types(df)
Detect ==
    /\ result' = DetectDataTypes(df)
    /\ UNCHANGED <<df, query, session_state>>

NextTypes ==
    /\ result = Idle
    /\ Detect

SpecTypes == InitTypes /\ [][NextTypes]_vars

-----------------------------------------------------------------------------
(* filter_data, and what the calls leave of the frame they are given *)

\* isin taken True on a missing cell
IsinRows_m(vals, values) ==
    LET keep(i) == vals[i] = <<>> \/ vals[i][1] \in values
        F[i \in 0..Len(vals)] ==
            IF i = 0 THEN <<>>
            ELSE IF keep(i) THEN Append(F[i - 1], i) ELSE F[i - 1]
    IN  F[Len(vals)]

\* the positions of the rows whose cell is one of the values, in row order;
\* isin is False on a missing cell
IsinRows(vals, values) ==
    LET keep(i) == vals[i] # <<>> /\ vals[i][1] \in values
        F[i \in 0..Len(vals)] ==
            IF i = 0 THEN <<>>
            ELSE IF keep(i) THEN Append(F[i - 1], i) ELSE F[i - 1]
    IN  F[Len(vals)]

\* filter_data(df, column, values): df[df[column].isin(values)] is a new frame
\* of the kept rows with their index labels, df is left as it was;
\* df[column] raises KeyError when df has no such column
FilterData(d, column, values) ==
    IF \E j \in DOMAIN d.columns : d.columns[j].name = column
    THEN [status |-> "returned", error |-> "None",
          df_filtered |-> Take(d, IsinRows(ColVals(d, column), values)), df |-> d]
    ELSE [status |-> "raised", error |-> "KeyError", df_filtered |-> d, df |-> d]

FrameMaxRows == 2

\* a datetime column "when", a numeric column "sales" and an object column
\* "kind", with the cells vt, vv and vk
FrameDataset(vt, vv, vk) ==
    [columns |->
        << [name |-> <<"w", "h", "e", "n">>, dtype |-> "datetime", vals |-> vt],
           [name |-> <<"s", "a", "l", "e", "s">>, dtype |-> "number", vals |-> vv],
           [name |-> <<"k", "i", "n", "d">>, dtype |-> "object", vals |-> vk] >>,
     index |-> RangeIndex(Len(vt))]

\* one query of each intent
FrameQueries ==
    { <<"s", "u", "m", "m", "a", "r", "y">>,
      <<"a", "v", "e", "r", "a", "g", "e", " ", "o", "f", " ", "s", "a", "l", "e", "s">>,
      <<"d", "i", "s", "t", "r", "i", "b", "u", "t", "i", "o", "n", " ", "o", "f", " ", "k", "i", "n", "d">>,
      <<"c", "o", "m", "p", "a", "r", "e", " ", "s", "a", "l", "e", "s">>,
      <<"t", "r", "e", "n", "d", " ", "o", "f", " ", "s", "a", "l", "e", "s">>,
      <<"h", "e", "l", "l", "o">> }

\* the values a column holds, the options the filter is chosen from
UniqueValues(d, column) ==
    LET vals == ColVals(d, column)
    IN  {vals[i][1] : i \in {j \in DOMAIN vals : vals[j] # <<>>}}

InitFrame ==
    /\ \E n \in 0..FrameMaxRows :
          \E vt \in [1..n -> {<<0>>, <<1>>}], vv \in [1..n -> {<<>>, <<1>>}],
             vk \in [1..n -> {<<>>, <<0>>, <<1>>}] :
              df = FrameDataset(vt, vv, vk)
    /\ query = <<>>
    /\ session_state = NoSession
    /\ result = Idle

\* filtered = filter_data(df, column, values)
Filter(column, values) ==
    LET f == FilterData(df, column, values)
    IN  /\ result' = [intent |-> "filter", sub |-> "none", status |-> f.status,
                      response |-> Msg(""), visualization |-> NoChart,
                      error |-> f.error, filtered |-> f.df_filtered,
                      column |-> column, values |-> values]
        /\ df' = f.df
        /\ UNCHANGED <<query, session_state>>

NextFrame ==
    /\ result = Idle
    /\ \/ \E q \in FrameQueries : Ask(q)
       \/ \E j \in DOMAIN df.columns :
             \E values \in SUBSET UniqueValues(df, df.columns[j].name) :
                 Filter(df.columns[j].name, values)

SpecFrame == InitFrame /\ [][NextFrame]_vars

-----------------------------------------------------------------------------
(* The application: one run of the script for each event of the session *)

SampleMin == 100
SampleMax == 10000
MaxHistory == 2

\* processed_data while it is None
NoData == [none |-> TRUE]

\* the sizes the sample slider offers for a dataset of the given rows: from
\* min_value to max_value = min(10000, rows); Streamlit lowers min_value to
\* max_value when it is above it
SampleSizes(rows) ==
    LET max_value == IF rows < SampleMax THEN rows ELSE SampleMax
        min_value == IF SampleMin < max_value THEN SampleMin ELSE max_value
    IN  min_value..max_value

\* data.sample(sample_size).reset_index(drop=True) when sample_size is less
\* than the rows, else data itself: the frames processed_data may become
Sampled(data, sample_size) ==
    IF sample_size < NRows(data)
    THEN { [columns |-> Take(data, order).columns, index |-> RangeIndex(sample_size)] :
             order \in { s \in InjSeqs(DOMAIN data.index, sample_size) :
                           Len(s) = sample_size } }
    ELSE {data}

\* filling a numeric column: a float cell holding x
FloatCell(x) == IF x.d = 1 THEN <<x.n>> ELSE <<x>>

\* Series.mode()[0]: the least of the most frequent values present
Mode0(vals) ==
    LET v == Dropna(vals)
        count(x) == Cardinality({i \in DOMAIN v : v[i] = x})
        most == {v[i] : i \in {k \in DOMAIN v : \A j \in DOMAIN v : count(v[j]) <= count(v[k])}}
    IN  CHOOSE x \in most : \A y \in most : x <= y

\* process_data(df): a copy of df whose numeric columns have their missing
\* cells filled with the column's median and whose other columns have them
\* filled with the column's mode, or with "Unknown" when the column has no
\* value (a median of nan fills nothing).  The strings the object cells of
\* the model stand for are not date-like, so no column is converted to
\* datetime.
ProcessData(d) ==
    LET filled(c) ==
            LET isna == \E i \in DOMAIN c.vals : c.vals[i] = <<>>
                fill == IF c.dtype = "number"
                        THEN (IF IsNaN(Median(c.vals)) THEN <<>> ELSE FloatCell(Median(c.vals)))
                        ELSE IF Dropna(c.vals) # <<>> THEN <<Mode0(c.vals)>>
                        ELSE <<"Unknown">>
            IN  IF isna
                THEN [c EXCEPT !.vals = [i \in DOMAIN c.vals |->
                                            IF c.vals[i] = <<>> THEN fill ELSE c.vals[i]]]
                ELSE c
    IN  [columns |-> [i \in DOMAIN d.columns |-> filled(d.columns[i])],
         index |-> d.index]

\* the assignment skipped: processed_data keeps what it held
ResetProcessed_m(stored, data, sample_size) ==
    IF stored = <<>> THEN Sampled(data, sample_size) ELSE {stored[1]}

\* the sidebar's assignment of processed_data in a run with data: a sample
\* of data or data itself, whatever processed_data held (stored: the result
\* of process_data in a run that loads, else what the run before left)
ResetProcessed(stored, data, sample_size) == Sampled(data, sample_size)

\* what the selectbox and the multiselect of the category filter hold: no
\* column, or a non-numeric column and some of its values
CategoryChoices(d) ==
    {[column |-> NoneCol, values |-> {}]} \cup
    UNION { { [column |-> c, values |-> v] : v \in SUBSET UniqueValues(d, c) } :
            c \in {CategoricalCols(d)[i] : i \in DOMAIN CategoricalCols(d)} }

\* the frame after the category filter: filtered when a column is selected
\* and some value is
CategoryFiltered(d, choice) ==
    IF choice.column # NoneCol /\ choice.values # {}
    THEN FilterData(d, choice.column, choice.values).df_filtered
    ELSE d

\* what the selectbox and the range slider of the numeric filter hold: no
\* column, or a numeric column and a range between its minimum and maximum.
\* What the slider does with nan bounds (a column without values) is
\* Streamlit's: it raises, or the range is (nan, nan).
RangeChoices(d) ==
    {[column |-> NoneCol, lo |-> NaN, hi |-> NaN, raises |-> FALSE]} \cup
    UNION { LET v == UniqueValues(d, c)
            IN  IF v = {}
                THEN {[column |-> c, lo |-> NaN, hi |-> NaN, raises |-> r] : r \in BOOLEAN}
                ELSE {[column |-> c, lo |-> Num(r[1]), hi |-> Num(r[2]), raises |-> FALSE] :
                        r \in {p \in v \X v : p[1] <= p[2]}}
            : c \in {NumericCols(d)[i] : i \in DOMAIN NumericCols(d)} }

\* the positions of the rows whose value is within the range, in row order;
\* a comparison with a missing value or with nan is False
BetweenRows(vals, lo, hi) ==
    LET keep(i) == /\ vals[i] # <<>> /\ ~IsNaN(lo) /\ ~IsNaN(hi)
                   /\ lo.n <= vals[i][1] /\ vals[i][1] <= hi.n
        F[i \in 0..Len(vals)] ==
            IF i = 0 THEN <<>>
            ELSE IF keep(i) THEN Append(F[i - 1], i) ELSE F[i - 1]
    IN  F[Len(vals)]

\* the frame after the numeric range filter
RangeFiltered(d, choice) ==
    IF choice.column # NoneCol
    THEN Take(d, BetweenRows(ColVals(d, choice.column), choice.lo, choice.hi))
    ELSE d

\* list(get_visualization_options(df).keys()): the chart types offered
VisualizationOptions(d) ==
    LET n == Len(NumericCols(d))
        c == Len(CategoricalCols(d))
        t == Len(DatetimeCols(d))
    IN  (IF n >= 2 THEN <<"scatter_plot">> ELSE <<>>) \o
        (IF n >= 1 THEN <<"line_chart">> ELSE <<>>) \o
        (IF c >= 1 /\ n >= 1 THEN <<"bar_chart">> ELSE <<>>) \o
        (IF n >= 1 THEN <<"histogram", "box_plot">> ELSE <<>>) \o
        (IF c >= 1 /\ n >= 1 THEN <<"pie_chart">> ELSE <<>>) \o
        (IF c + t >= 2 /\ n >= 1 THEN <<"heatmap">> ELSE <<>>) \o
        (IF n >= 3 THEN <<"bubble_chart", "scatter_matrix">> ELSE <<>>)

\* create_visualization(df, chart_type, ...) with the parameters the widgets
\* hold at first: the figure, or no figure and the exception plotly raised
CreateVisualization(d, chart_type) ==
    { [status |-> "returned", fig |-> Chart(chart_type, NoneCol, NoneCol, <<>>, <<>>)],
      [status |-> "raised", fig |-> NoChart] }

\* the chart kept after "Generate Visualization": the figure when there is one
Generated(chart, made) ==
    IF made.status = "returned" /\ made.fig # NoChart THEN made.fig ELSE chart

\* query_data_with_rules(user_query, processed_data): the query engine
QueryDataWithRules(q, d) == QueryDataWithAI(q, d)

\* {"user": user_query, "response": response, "chart": chart}
Entry(q, o) ==
    [user |-> q, response |-> o.response, chart |-> o.visualization, error |-> "None"]

\* {"user": user_query, "response": f"Error: {str(e)}", "chart": None}
ErrorEntry(q, o) ==
    [user |-> q, response |-> Msg("Error: "), chart |-> NoChart, error |-> o.error]

\* the error made the whole history
AppendError_m(chat_history, q, o) == <<ErrorEntry(q, o)>>

\* the except branch without its test of the history
AppendError_always(chat_history, q, o) == Append(chat_history, ErrorEntry(q, o))

\* the except branch: the error is recorded only in an empty history
AppendError(chat_history, q, o) ==
    IF chat_history = <<>> THEN Append(chat_history, ErrorEntry(q, o)) ELSE chat_history

\* the query resolved in the context of the question asked before it
AskAssistant_m(chat_history, q, d) ==
    IF q # <<>>
    THEN { [chat_history |-> IF o.status = "returned"
                             THEN Append(chat_history, Entry(q, o))
                             ELSE AppendError(chat_history, q, o),
            called |-> TRUE, query |-> q, df |-> o.df,
            result |-> [intent |-> o.intent, sub |-> o.sub, status |-> o.status,
                        response |-> o.response, visualization |-> o.visualization,
                        error |-> o.error]]
           : o \in QueryDataWithRules(
                       IF chat_history = <<>> THEN q
                       ELSE chat_history[Len(chat_history)].user \o <<" ">> \o q, d) }
    ELSE { [chat_history |-> chat_history, called |-> FALSE, query |-> q, df |-> d,
            result |-> Idle] }

\* "Ask Assistant" with the query q on the frame d: the histories, results
\* and frames it may leave; an empty query only gives a warning
AskAssistant(chat_history, q, d) ==
    IF q # <<>>
    THEN { [chat_history |-> IF o.status = "returned"
                             THEN Append(chat_history, Entry(q, o))
                             ELSE AppendError(chat_history, q, o),
            called |-> TRUE, query |-> q, df |-> o.df,
            result |-> [intent |-> o.intent, sub |-> o.sub, status |-> o.status,
                        response |-> o.response, visualization |-> o.visualization,
                        error |-> o.error]]
           : o \in QueryDataWithRules(q, d) }
    ELSE { [chat_history |-> chat_history, called |-> FALSE, query |-> q, df |-> d,
            result |-> Idle] }

\* the datasets the session loads: "kind" and "sales", the sales of the
\* second row missing; and "kind" alone
SessionDatasets ==
    { [columns |->
          << [name |-> <<"k", "i", "n", "d">>, dtype |-> "object", vals |-> << <<0>>, <<1>> >>],
             [name |-> <<"s", "a", "l", "e", "s">>, dtype |-> "number", vals |-> << <<1>>, <<>> >>] >>,
       index |-> RangeIndex(2)],
      [columns |->
          << [name |-> <<"k", "i", "n", "d">>, dtype |-> "object", vals |-> << <<0>>, <<1>> >>] >>,
       index |-> RangeIndex(2)] }

\* what is typed in the query box
SessionQueries ==
    { <<>>,
      <<"s", "u", "m", "m", "a", "r", "y">>,
      <<"m", "a", "x", "i", "m", "u", "m", " ", "o", "f", " ", "s", "a", "l", "e", "s">> }

\* the chart types picked in the session
SessionChartTypes == {"line_chart"}

InitSession ==
    /\ df = NoData
    /\ query = <<>>
    /\ result = Idle
    /\ session_state = NoSession

\* One run of the script.  load is the dataset read in this run, if any;
\* button is the button pressed, if any; the other arguments are what the
\* widgets hold.
Run(load, sample_size, category, range, button, chart_type, q) ==
    LET data == IF load # <<>> THEN load ELSE session_state.data
        stored == IF load # <<>> THEN <<ProcessData(load[1])>>
                  ELSE IF df = NoData THEN <<>> ELSE <<df>>
        widgets == [sample_size |-> sample_size, category |-> category, range |-> range]
    IN  IF data = <<>>
        THEN \* the welcome page
             /\ load = <<>> /\ button = "None"
             /\ UNCHANGED vars
        ELSE \E sampled \in ResetProcessed(stored, data[1], sample_size) :
             LET filtered == CategoryFiltered(sampled, category)
                 processed_data == RangeFiltered(filtered, range)
                 options == VisualizationOptions(processed_data)
             IN  /\ sample_size \in SampleSizes(NRows(data[1]))
                 /\ category \in CategoryChoices(sampled)
                 /\ range \in RangeChoices(filtered)
                 /\ range.column # NoneCol => range.column \in
                        {NumericCols(sampled)[i] : i \in DOMAIN NumericCols(sampled)}
                 /\ IF range.raises
                    THEN \* the script stops at the range slider
                         /\ button = "None"
                         /\ df' = filtered
                         /\ session_state' = [session_state EXCEPT !.data = data, !.widgets = widgets]
                         /\ UNCHANGED <<query, result>>
                    ELSE IF options = <<>>
                    THEN \* chart_type is None: chart_type.title() raises
                         \* and the script stops before the assistant tab
                         /\ button = "None"
                         /\ df' = processed_data
                         /\ session_state' = [session_state EXCEPT !.data = data, !.widgets = widgets]
                         /\ UNCHANGED <<query, result>>
                    ELSE CASE button = "Generate Visualization" ->
                                /\ \E i \in DOMAIN options : options[i] = chart_type
                                /\ \E made \in CreateVisualization(processed_data, chart_type) :
                                      session_state' =
                                          [session_state EXCEPT
                                              !.data = data,
                                              !.widgets = widgets,
                                              !.chart = Generated(session_state.chart, made)]
                                /\ df' = processed_data
                                /\ UNCHANGED <<query, result>>
                           [] button = "Ask Assistant" ->
                                /\ Len(session_state.chat_history) < MaxHistory
                                /\ \E a \in AskAssistant(session_state.chat_history, q, processed_data) :
                                      /\ session_state' =
                                             [session_state EXCEPT
                                                 !.data = data,
                                                 !.widgets = widgets,
                                                 !.chat_history = a.chat_history]
                                      /\ df' = a.df
                                      /\ IF a.called
                                         THEN query' = a.query /\ result' = a.result
                                         ELSE UNCHANGED <<query, result>>
                           [] OTHER ->
                                /\ button = "None"
                                /\ df' = processed_data
                                /\ session_state' = [session_state EXCEPT !.data = data, !.widgets = widgets]
                                /\ UNCHANGED <<query, result>>

\* the events of a session: loading a dataset, changing the filters,
\* generating a chart, asking a question
NextSession ==
    \/ \E d \in SessionDatasets :
          Run(<<d>>, NRows(d), [column |-> NoneCol, values |-> {}],
              [column |-> NoneCol, lo |-> NaN, hi |-> NaN, raises |-> FALSE],
              "None", "None", <<>>)
    \/ /\ session_state.data # <<>>
       /\ \E category \in CategoryChoices(session_state.data[1]) :
             \E range \in RangeChoices(CategoryFiltered(session_state.data[1], category)) :
                \/ Run(<<>>, NRows(session_state.data[1]), category, range, "None", "None", <<>>)
                \/ \E chart_type \in SessionChartTypes :
                      Run(<<>>, NRows(session_state.data[1]), category, range,
                          "Generate Visualization", chart_type, <<>>)
                \/ \E q \in SessionQueries :
                      Run(<<>>, NRows(session_state.data[1]), category, range,
                          "Ask Assistant", "None", q)

SpecSession == InitSession /\ [][NextSession]_vars

-----------------------------------------------------------------------------
(* A query on the filtered frame *)

FilterMaxRows == 2

\* a numeric column "sales" and an object column "kind" with the cells vv
\* and vk
FilterDataset(vv, vk) ==
    [columns |->
        << [name |-> <<"s", "a", "l", "e", "s">>, dtype |-> "number", vals |-> vv],
           [name |-> <<"k", "i", "n", "d">>, dtype |-> "object", vals |-> vk] >>,
     index |-> RangeIndex(Len(vv))]

\* the queries for the statistics of "sales"
FilterQueries ==
    { <<"s", "u", "m", "m", "a", "r", "y">>,
      <<"a", "v", "e", "r", "a", "g", "e", " ", "o", "f", " ", "s", "a", "l", "e", "s">>,
      <<"m", "e", "d", "i", "a", "n", " ", "o", "f", " ", "s", "a", "l", "e", "s">>,
      <<"m", "a", "x", "i", "m", "u", "m", " ", "o", "f", " ", "s", "a", "l", "e", "s">>,
      <<"m", "i", "n", "i", "m", "u", "m", " ", "o", "f", " ", "s", "a", "l", "e", "s">> }

InitFiltered ==
    /\ \E n \in 0..FilterMaxRows :
          \E vv \in [1..n -> {<<>>, <<1>>, <<4>>}], vk \in [1..n -> {<<>>, <<0>>, <<1>>}] :
              df = FilterDataset(vv, vk)
    /\ query = <<>>
    /\ session_state = NoSession
    /\ result = Idle

\* response, chart = query_data_with_ai(q, filtered), filtered being what
\* filter_data returned
AskFiltered(q) ==
    /\ result.intent = "filter" /\ result.status = "returned"
    /\ query' = q
    /\ \E o \in QueryDataWithAI(q, result.filtered) :
          result' = [intent |-> o.intent, sub |-> o.sub, status |-> o.status,
                     response |-> o.response, visualization |-> o.visualization,
                     error |-> o.error, filtered |-> o.df,
                     column |-> result.column, values |-> result.values]
    /\ UNCHANGED <<df, session_state>>

NextFiltered ==
    \/ /\ result = Idle
       /\ \E j \in DOMAIN df.columns :
             \E values \in SUBSET UniqueValues(df, df.columns[j].name) :
                 Filter(df.columns[j].name, values)
    \/ \E q \in FilterQueries : AskFiltered(q)

SpecFiltered == InitFiltered /\ [][NextFiltered]_vars

-----------------------------------------------------------------------------
(* Mean and median queries on a numeric column *)

MeanMaxRows == 3
MeanMaxVal == 2

price == <<"p", "r", "i", "c", "e">>

\* a numeric column "price" with the cells vals
PriceDataset(vals) ==
    [columns |-> << [name |-> price, dtype |-> "number", vals |-> vals] >>,
     index |-> RangeIndex(Len(vals))]

\* price = [10, 20, 30, 40]
PriceExample == PriceDataset(<< <<10>>, <<20>>, <<30>>, <<40>> >>)

MeanQueries ==
    { <<"w", "h", "a", "t", " ", "i", "s", " ", "t", "h", "e", " ", "a", "v", "e", "r", "a", "g", "e", " ", "p", "r", "i", "c", "e", "?">>,
      <<"M", "E", "A", "N", " ", "o", "f", " ", "P", "r", "i", "c", "e">>,
      <<"m", "e", "d", "i", "a", "n", " ", "p", "r", "i", "c", "e">> }

InitMean ==
    /\ \/ \E n \in 0..MeanMaxRows :
             \E vals \in [1..n -> {<<>>} \cup {<<v>> : v \in 0..MeanMaxVal}] :
                 df = PriceDataset(vals)
       \/ df = PriceExample
    /\ query = <<>>
    /\ session_state = NoSession
    /\ result = Idle

NextMean ==
    /\ result = Idle
    /\ \E q \in MeanQueries : Ask(q)

SpecMean == InitMean /\ [][NextMean]_vars

-----------------------------------------------------------------------------
(* Comparison queries over columns of every dtype *)

CompareMaxCols == 3
CompareMaxRows == 2

\* The columns the datasets are built from, with n rows: two numeric columns
\* and an object, a bool, a datetime and a category column.
ComparePool(n) ==
    << [name |-> <<"q", "t", "y">>, dtype |-> "number", vals |-> [i \in 1..n |-> <<i>>]],
       [name |-> <<"c", "o", "s", "t">>, dtype |-> "number", vals |-> [i \in 1..n |-> <<(2 * i) % 3>>]],
       [name |-> <<"k", "i", "n", "d">>, dtype |-> "object", vals |-> [i \in 1..n |-> <<i % 2>>]],
       [name |-> <<"f", "l", "a", "g">>, dtype |-> "bool", vals |-> [i \in 1..n |-> <<(i + 1) % 2>>]],
       [name |-> <<"w", "h", "e", "n">>, dtype |-> "datetime", vals |-> [i \in 1..n |-> <<n - i>>]],
       [name |-> <<"t", "i", "e", "r">>, dtype |-> "category",
        vals |-> [i \in 1..n |-> IF i = 1 THEN <<>> ELSE <<1>>]] >>

CompareDataset(cs, n) ==
    [columns |-> [i \in DOMAIN cs |-> ComparePool(n)[cs[i]]], index |-> RangeIndex(n)]

CompareQueries ==
    { <<"c", "o", "m", "p", "a", "r", "e", " ", "q", "t", "y", " ", "c", "o", "s", "t", " ", "k", "i", "n", "d", " ", "f", "l", "a", "g", " ", "w", "h", "e", "n", " ", "t", "i", "e", "r">>,
      <<"Q", "t", "y", " ", "v", "e", "r", "s", "u", "s", " ", "K", "i", "n", "d">>,
      <<"d", "i", "f", "f", "e", "r", "e", "n", "c", "e", " ", "o", "f", " ", "f", "l", "a", "g", " ", "a", "n", "d", " ", "w", "h", "e", "n">> }

InitCompare ==
    /\ \E cs \in InjSeqs(DOMAIN ComparePool(0), CompareMaxCols), n \in 0..CompareMaxRows :
          df = CompareDataset(cs, n)
    /\ query = <<>>
    /\ session_state = NoSession
    /\ result = Idle

NextCompare ==
    /\ result = Idle
    /\ \E q \in CompareQueries : Ask(q)

SpecCompare == InitCompare /\ [][NextCompare]_vars

-----------------------------------------------------------------------------
(* The cryptocurrency provider: get_crypto_data and its fallbacks *)

MaxCoins == 2
TooManyRequests == 429
CoinLimit == 20
SampleCoins == 10

Ranking == <<"R", "a", "n", "k", "i", "n", "g">>

\* The coins a source may list.  A coin has every key read from it, or lacks
\* one (KeyError), or has a null symbol (None.upper(): AttributeError).
Coins ==
    [kind : {"full", "key_missing", "symbol_null"}, rank : {1, 2}]

\* What requests.get may give: an exception of requests (no connection, a
\* timeout), or an answer with a status code and a body that is not JSON or
\* is a JSON list of coins
Responses ==
    {[kind |-> "exception", status_code |-> 0, json |-> FALSE, data |-> <<>>]}
    \cup { [kind |-> "answer", status_code |-> s, json |-> FALSE, data |-> <<>>] :
             s \in {200, TooManyRequests, 500} }
    \cup UNION { { [kind |-> "answer", status_code |-> 200, json |-> TRUE, data |-> data] :
                     data \in [1..n -> Coins] } : n \in 0..MaxCoins }

\* response.raise_for_status(): HTTPError for the codes from 400 to 599
RaiseForStatus(response) == response.status_code >= 400 /\ response.status_code < 600

\* pd.DataFrame(processed_data) for the list built from the coins: one row
\* per coin, no column at all for an empty list.  Of the eleven columns only
\* Ranking is kept, the others are built in the same way.
CoinFrame(data) ==
    IF data = <<>> THEN [columns |-> <<>>, index |-> <<>>]
    ELSE [columns |-> << [name |-> Ranking, dtype |-> "number",
                          vals |-> [i \in DOMAIN data |-> <<data[i].rank>>]] >>,
          index |-> RangeIndex(Len(data))]

\* the loop over the coins: the frame, or the exception of the first coin
\* that cannot be read
ReadCoins(data) ==
    LET bad == {i \in DOMAIN data : data[i].kind # "full"}
        first == CHOOSE i \in bad : \A j \in bad : i <= j
    IN  IF bad = {} THEN [error |-> "None", df |-> CoinFrame(data)]
        ELSE IF data[first].kind = "key_missing" THEN [error |-> "KeyError", df |-> NoData]
        ELSE [error |-> "AttributeError", df |-> NoData]

\* the try block of either function after requests.get: what is raised, if
\* anything, and the frame made.  limit is the number of coins kept.
ReadResponse(response, limit) ==
    IF response.kind = "exception" THEN [error |-> "RequestException", df |-> NoData]
    ELSE IF RaiseForStatus(response) THEN [error |-> "RequestException", df |-> NoData]
    ELSE IF ~response.json THEN [error |-> "ValueError", df |-> NoData]
    ELSE ReadCoins(SubSeq(response.data, 1, Min2(limit, Len(response.data))))

\* except (requests.exceptions.RequestException, ValueError, KeyError)
Caught(error) == error \in {"RequestException", "ValueError", "KeyError"}

\* the static sample: ten coins, Ranking = df.index + 1
StaticSample ==
    [columns |-> << [name |-> Ranking, dtype |-> "number",
                     vals |-> [i \in 1..SampleCoins |-> <<i>>]] >>,
     index |-> RangeIndex(SampleCoins)]

\* get_crypto_data has been called and nothing is requested yet
InitCrypto ==
    /\ df = NoData
    /\ query = <<>>
    /\ result = [intent |-> "crypto", status |-> "running", pc |-> "coingecko",
                 requests |-> <<>>, error |-> "None"]
    /\ session_state = NoSession

Requested(source, response) ==
    Append(result.requests, [source |-> source, response |-> response])

\* get_crypto_data: the request to CoinGecko; 429 and the exceptions caught
\* lead to get_crypto_data_alternative, any other exception leaves the call
RequestCoinGecko ==
    /\ result.status = "running" /\ result.pc = "coingecko"
    /\ \E response \in Responses :
          LET read == ReadResponse(response, Len(response.data))
          IN  IF response.kind = "answer" /\ response.status_code = TooManyRequests
              THEN /\ result' = [result EXCEPT !.pc = "coinpaprika",
                                               !.requests = Requested("coingecko", response)]
                   /\ UNCHANGED df
              ELSE IF read.error = "None"
              THEN /\ result' = [result EXCEPT !.status = "returned",
                                               !.requests = Requested("coingecko", response)]
                   /\ df' = read.df
              ELSE IF Caught(read.error)
              THEN /\ result' = [result EXCEPT !.pc = "coinpaprika",
                                               !.requests = Requested("coingecko", response)]
                   /\ UNCHANGED df
              ELSE /\ result' = [result EXCEPT !.status = "raised", !.error = read.error,
                                               !.requests = Requested("coingecko", response)]
                   /\ UNCHANGED df
    /\ UNCHANGED <<query, session_state>>

\* get_crypto_data_alternative: the request to CoinPaprika, the first twenty
\* coins kept; the exceptions caught lead to the static sample
RequestCoinPaprika ==
    /\ result.status = "running" /\ result.pc = "coinpaprika"
    /\ \E response \in Responses :
          LET read == ReadResponse(response, CoinLimit)
          IN  IF read.error = "None"
              THEN /\ result' = [result EXCEPT !.status = "returned",
                                               !.requests = Requested("coinpaprika", response)]
                   /\ df' = read.df
              ELSE IF Caught(read.error)
              THEN /\ result' = [result EXCEPT !.pc = "sample",
                                               !.requests = Requested("coinpaprika", response)]
                   /\ UNCHANGED df
              ELSE /\ result' = [result EXCEPT !.status = "raised", !.error = read.error,
                                               !.requests = Requested("coinpaprika", response)]
                   /\ UNCHANGED df
    /\ UNCHANGED <<query, session_state>>

\* the except branch of get_crypto_data_alternative
UseStaticSample ==
    /\ result.status = "running" /\ result.pc = "sample"
    /\ result' = [result EXCEPT !.status = "returned"]
    /\ df' = StaticSample
    /\ UNCHANGED <<query, session_state>>

NextCrypto == RequestCoinGecko \/ RequestCoinPaprika \/ UseStaticSample

SpecCrypto == InitCrypto /\ [][NextCrypto]_vars

-----------------------------------------------------------------------------
(* Properties *)

\* query_data_with_ai has been called
Called == result.status # "idle"

\* the lowercased query of the call
QL == LowerStr(query)

\* one of the words occurs in the lowercased query
Mentions(words) ==
    LET ql == QL
    IN  \E w \in words : Contains(ql, w)

\* the positions, in dataset order, of the columns whose lowercased name
\* occurs in the lowercased query
NamedCols ==
    {i \in DOMAIN df.columns : Contains(QL, LowerStr(df.columns[i].name))}

\* the positions of the numeric columns
NumericPos == {i \in DOMAIN df.columns : df.columns[i].dtype = "number"}

First(S) == CHOOSE i \in S : \A j \in S : i <= j

SummaryKeywords ==
    { <<"s", "u", "m", "m", "a", "r", "i", "z", "e">>,
      <<"s", "u", "m", "m", "a", "r", "y">>,
      <<"o", "v", "e", "r", "v", "i", "e", "w">>,
      <<"d", "e", "s", "c", "r", "i", "b", "e">> }

StatisticalKeywords ==
    { <<"a", "v", "e", "r", "a", "g", "e">>,
      <<"m", "e", "a", "n">>,
      <<"m", "e", "d", "i", "a", "n">>,
      <<"m", "a", "x", "i", "m", "u", "m">>,
      <<"m", "i", "n", "i", "m", "u", "m">>,
      <<"c", "o", "r", "r", "e", "l", "a", "t", "i", "o", "n">>,
      <<"c", "o", "r", "r", "e", "l", "a", "t", "e">> }

DistributionKeywords ==
    { <<"d", "i", "s", "t", "r", "i", "b", "u", "t", "i", "o", "n">>,
      <<"h", "i", "s", "t", "o", "g", "r", "a", "m">>,
      <<"s", "p", "r", "e", "a", "d">>,
      <<"r", "a", "n", "g", "e">> }

ComparisonKeywords ==
    { <<"c", "o", "m", "p", "a", "r", "e">>,
      <<"c", "o", "m", "p", "a", "r", "i", "s", "o", "n">>,
      <<"d", "i", "f", "f", "e", "r", "e", "n", "c", "e">>,
      <<"v", "e", "r", "s", "u", "s">>,
      <<"v", "s">> }

TrendKeywords ==
    { <<"t", "r", "e", "n", "d">>,
      <<"t", "i", "m", "e">>,
      <<"o", "v", "e", "r", " ", "t", "i", "m", "e">>,
      <<"c", "h", "a", "n", "g", "e">>,
      <<"e", "v", "o", "l", "u", "t", "i", "o", "n">> }


IntentNames == <<"summary", "statistical", "distribution", "comparison", "trend">>

IntentMatches ==
    <<Mentions(SummaryKeywords), Mentions(StatisticalKeywords),
      Mentions(DistributionKeywords), Mentions(ComparisonKeywords),
      Mentions(TrendKeywords)>>

\* C1: every call runs exactly one top-level branch: the first of summary,
\* statistical, distribution, comparison, trend whose keyword set has a member
\* occurring in the lowercased query, and the fallback branch exactly when
\* none of the five sets matches.
C1_IntentPriority ==
    Called =>
        LET m == IntentMatches
        IN  /\ \A k \in 1..5 :
                  result.intent = IntentNames[k]
                      <=> (m[k] /\ \A j \in 1..(k - 1) : ~m[j])
            /\ result.intent = "fallback" <=> \A k \in 1..5 : ~m[k]

\* C1 witness: a query matching the statistical and the distribution set was
\* answered by the statistical branch
C1_Witness ==
    /\ Called
    /\ IntentMatches[2] /\ IntentMatches[3]
    /\ result.intent = "statistical"

SubNames == <<"mean", "median", "max", "min", "correlation">>

SubMatches ==
    <<Mentions({<<"a", "v", "e", "r", "a", "g", "e">>, <<"m", "e", "a", "n">>}),
      Mentions({<<"m", "e", "d", "i", "a", "n">>}),
      Mentions({<<"m", "a", "x", "i", "m", "u", "m">>, <<"m", "a", "x">>}),
      Mentions({<<"m", "i", "n", "i", "m", "u", "m">>, <<"m", "i", "n">>}),
      Mentions({<<"c", "o", "r", "r", "e", "l", "a", "t", "i", "o", "n">>, <<"c", "o", "r", "r", "e", "l", "a", "t", "e">>})>>

\* the heading or the fixed message each statistical sub-branch answers with
SubTexts ==
    << {"## Average Analysis",
        "I couldn't identify which numeric column you want to find the average for. Please specify a numeric column name."},
       {"## Median Analysis",
        "I couldn't identify which numeric column you want to find the median for. Please specify a numeric column name."},
       {"## Maximum Analysis",
        "I couldn't identify which numeric column you want to find the maximum for. Please specify a numeric column name."},
       {"## Minimum Analysis",
        "I couldn't identify which numeric column you want to find the minimum for. Please specify a numeric column name."},
       {"## Correlation Analysis",
        "The dataset doesn't have enough numeric columns to perform correlation analysis."} >>

\* C2: inside the statistical intent exactly one sub-branch fires, the first of
\* average/mean, median, maximum/max, minimum/min, correlation/correlate whose
\* keyword occurs in the query, and the answer is that sub-branch's alone.
C2_StatisticalPrecedence ==
    (Called /\ result.intent = "statistical") =>
        LET m == SubMatches
        IN  /\ \A k \in 1..5 :
                  result.sub = SubNames[k]
                      <=> (m[k] /\ \A j \in 1..(k - 1) : ~m[j])
            /\ \E k \in 1..5 : result.sub = SubNames[k]
            /\ \A k \in 1..5 :
                  (result.sub = SubNames[k] /\ result.status = "returned")
                      => result.response.text \in SubTexts[k]

\* C2 witness: a query with "mean" and "correlate" was answered as a mean query
C2_Witness ==
    /\ Called
    /\ SubMatches[1] /\ SubMatches[5]
    /\ result.intent = "statistical" /\ result.sub = "mean"
    /\ result.response.text \in SubTexts[1]

\* C3: a query for which the maximum/max check and the minimum/min check both
\* hold, without a summary keyword and without average, mean or median, is
\* answered by the Maximum Analysis branch.
C3_MinMaxIsMaximum ==
    (Called /\ SubMatches[3] /\ SubMatches[4]
        /\ ~Mentions(SummaryKeywords) /\ ~SubMatches[1] /\ ~SubMatches[2])
        => (result.intent = "statistical" /\ result.sub = "max")

\* the intents that resolve one column from the query
SingleColumn ==
    \/ result.intent = "statistical" /\ result.sub \in {"mean", "median", "max", "min"}
    \/ result.intent = "distribution"

\* C4: for mean, median, max, min and distribution the column the answer is
\* about is the first column, in dataset order, whose lowercased name occurs
\* in the lowercased query, also when a later column's name occurs too or
\* contains the first one's; with no such column no column is answered about.
C4_FirstMatchWins ==
    (Called /\ SingleColumn /\ result.status = "returned") =>
        LET named == NamedCols
            first == df.columns[First(named)]
        IN  IF named = {} THEN result.response.cols = <<>>
            ELSE /\ result.response.cols \in {<<>>, <<first.name>>}
                 /\ (first.dtype = "number" \/ result.intent = "distribution")
                        => /\ result.response.cols = <<first.name>>
                           /\ result.visualization.x = first.name

\* C4 witness: two columns are named in the query, the name of the first is
\* contained in the name of the second, and the answer is about the first
C4_Witness ==
    /\ Called /\ SingleColumn /\ result.status = "returned"
    /\ \E i, j \in NamedCols :
          /\ i < j /\ i = First(NamedCols)
          /\ Contains(LowerStr(df.columns[j].name), LowerStr(df.columns[i].name))
          /\ result.response.cols = <<df.columns[i].name>>

CannotCompare ==
    Msg("I couldn't identify which columns you want to compare. Please specify both column names.")

\* C5: in a comparison, (col1, col2) are the first and the second column, in
\* dataset order, whose lowercased names occur in the lowercased query, so
\* col1 comes before col2 in the dataset and further named columns are
\* ignored; with fewer than two such columns the answer is the fixed
\* message, without a chart.
C5_FirstTwoMatches ==
    (Called /\ result.intent = "comparison") =>
        LET named == NamedCols
            i1 == First(named)
            i2 == First(named \ {i1})
        IN  /\ result.status = "returned"
            /\ IF Cardinality(named) < 2
               THEN /\ result.response = CannotCompare
                    /\ result.visualization = NoChart
               ELSE /\ result.response.cols
                           = <<df.columns[i1].name, df.columns[i2].name>>
                    /\ i1 < i2
                    /\ {result.visualization.x, result.visualization.y}
                           = {df.columns[i1].name, df.columns[i2].name}

\* C5 witness: three or more columns are named and two are compared
C5_Witness ==
    /\ Called /\ result.intent = "comparison"
    /\ Cardinality(NamedCols) >= 3
    /\ Len(result.response.cols) = 2

\* the fixed message of each statistical sub-branch that resolves a column
NoNumericColumn ==
    [mean |-> Msg("I couldn't identify which numeric column you want to find the average for. Please specify a numeric column name."),
     median |-> Msg("I couldn't identify which numeric column you want to find the median for. Please specify a numeric column name."),
     max |-> Msg("I couldn't identify which numeric column you want to find the maximum for. Please specify a numeric column name."),
     min |-> Msg("I couldn't identify which numeric column you want to find the minimum for. Please specify a numeric column name.")]

\* a column is datetime-typed or has a date word in its lowercased name
HasTimeCol ==
    \E i \in DOMAIN df.columns :
        \/ df.columns[i].dtype = "datetime"
        \/ \E w \in {<<"d", "a", "t", "e">>, <<"t", "i", "m", "e">>,
                     <<"y", "e", "a", "r">>, <<"m", "o", "n", "t", "h">>,
                     <<"d", "a", "y">>} :
               Contains(LowerStr(df.columns[i].name), w)

\* the message and chart a recognized failure must end in
FailsWith(response) ==
    /\ result.status = "returned"
    /\ result.response = response
    /\ result.visualization = NoChart

\* C6: every recognized failure returns its fixed message and no chart, and
\* does not raise: no column named in a mean, median, max, min or distribution
\* query, fewer than two columns named in a comparison, a correlation query
\* with fewer than two numeric columns, a trend query without a time column
\* or without a numeric column.
C6_FailuresAreMessages ==
    Called =>
        /\ (result.intent = "statistical" /\ result.sub \in DOMAIN NoNumericColumn
               /\ NamedCols = {})
              => FailsWith(NoNumericColumn[result.sub])
        /\ (result.intent = "distribution" /\ NamedCols = {})
              => FailsWith(Msg("I couldn't identify which column you want to analyze. Please specify a column name."))
        /\ (result.intent = "comparison" /\ Cardinality(NamedCols) < 2)
              => FailsWith(CannotCompare)
        /\ (result.intent = "statistical" /\ result.sub = "correlation"
               /\ Cardinality(NumericPos) < 2)
              => FailsWith(Msg("The dataset doesn't have enough numeric columns to perform correlation analysis."))
        /\ (result.intent = "trend" /\ ~HasTimeCol)
              => FailsWith(Msg("I couldn't find a suitable time or date column in the data to analyze trends."))
        /\ (result.intent = "trend" /\ HasTimeCol /\ NumericPos = {})
              => FailsWith(Msg("I couldn't identify which value you want to track over time. Please specify a numeric column name."))

\* C6 witness: a correlation query on a dataset with one numeric column got
\* the fixed message
C6_Witness ==
    /\ Called /\ result.sub = "correlation"
    /\ Cardinality(NumericPos) = 1
    /\ result.status = "returned" /\ result.visualization = NoChart

\* the cells of the first column named in the query
NamedVals == df.columns[First(NamedCols)].vals

\* the positions of the cells present
Present(vals) == {i \in DOMAIN vals : vals[i] # <<>>}

\* the row at position p of the dataset
RowAt(p) == [j \in DOMAIN df.columns |-> df.columns[j].vals[p]]

\* C7: an extremum query on a numeric column holding a value reports the
\* maximum (resp. minimum) of the column and the row at the first position,
\* in dataset order, where that value occurs.
C7_ExtremumFirstOccurrence ==
    (Called /\ result.sub \in {"max", "min"} /\ NamedCols # {}
        /\ df.columns[First(NamedCols)].dtype = "number"
        /\ Present(NamedVals) # {}) =>
        LET vals == NamedVals
            pres == Present(vals)
            extreme == CHOOSE p \in pres :
                           \A j \in pres :
                               IF result.sub = "max" THEN vals[j][1] <= vals[p][1]
                               ELSE vals[p][1] <= vals[j][1]
            first == First({p \in pres : vals[p][1] = vals[extreme][1]})
        IN  /\ result.status = "returned"
            /\ result.response.vals = <<[n |-> vals[extreme][1], d |-> 1]>>
            /\ result.response.row = RowAt(first)

\* C7 witness: on the values 3, 1, 4, 1, 5 the minimum query reported 1 with
\* the row of index 1
C7_Witness ==
    /\ Called /\ result.sub = "min" /\ result.status = "returned"
    /\ NamedCols # {} /\ NamedVals = PiDigits
    /\ result.response.vals = <<[n |-> 1, d |-> 1]>>
    /\ result.response.row = RowAt(2)
    /\ df.index[2] = 1

\* abs(a) > abs(b) on the coefficients of a correlation matrix
StrictlyStronger(a, b) == a.d # 0 /\ b.d # 0 /\ a.n * b.d > b.n * a.d

\* a single scan of the unordered pairs (i, j), i < j, of the K columns of the
\* matrix M, from pair (i, j) on, keeping the strictly greater one
RECURSIVE UnorderedScan(_, _, _, _, _)
UnorderedScan(M, K, i, j, best) ==
    IF i >= K THEN best
    ELSE IF j > K THEN UnorderedScan(M, K, i + 1, i + 2, best)
    ELSE UnorderedScan(M, K, i, j + 1,
             IF StrictlyStronger(M[i][j], best.corr)
             THEN [corr |-> M[i][j], pair |-> <<i, j>>]
             ELSE best)

\* the pair the unordered scan keeps, <<>> when it keeps none
UnorderedBest(M) ==
    UnorderedScan(M, Len(M), 1, 2, [corr |-> [s |-> 0, n |-> 0, d |-> 1], pair |-> <<>>]).pair

\* the names of the numeric columns, in dataset order
NumericNames ==
    LET num == SelectSeq(df.columns, LAMBDA c : c.dtype = "number")
    IN  [i \in DOMAIN num |-> num[i].name]

\* the unordered pairs of the matrix with the maximal defined absolute value
Strongest(M) ==
    {pr \in {<<i, j>> : i, j \in DOMAIN M} :
        /\ pr[1] < pr[2] /\ M[pr[1]][pr[2]].d # 0
        /\ \A i, j \in DOMAIN M :
              i < j => ~StrictlyStronger(M[i][j], M[pr[1]][pr[2]])}

\* C8: the pair a correlation query reports is the pair a single scan of the
\* unordered pairs with a strict greater-than update keeps; col1 comes before
\* col2 in column order, and among the pairs sharing the maximal absolute
\* correlation the first in iteration order is reported.
C8_OrderedScanIsUnorderedScan ==
    (Called /\ result.sub = "correlation" /\ result.status = "returned"
        /\ Len(NumericNames) >= 2) =>
        LET M == result.response.table
            best == UnorderedBest(M)
            names == NumericNames
        IN  /\ best # <<>>
            /\ result.response.cols = <<names[best[1]], names[best[2]]>>
            /\ best[1] < best[2]
            /\ best \in Strongest(M)
            /\ \A pr \in Strongest(M) :
                  best[1] < pr[1] \/ (best[1] = pr[1] /\ best[2] <= pr[2])

\* C8 witness: the pairs (1, 3) and (2, 3) share the maximal absolute
\* correlation, the pair (1, 2) stays below it, and (1, 3) was reported
C8_Witness ==
    /\ Called /\ result.sub = "correlation" /\ result.status = "returned"
    /\ Len(NumericNames) >= 3
    /\ Strongest(result.response.table) = {<<1, 3>>, <<2, 3>>}
    /\ result.response.cols = <<NumericNames[1], NumericNames[3]>>

\* C9: a correlation query on a dataset with two or more numeric columns
\* completes with a response naming two distinct numeric columns and a
\* scatter chart of them, whatever the correlations are.
C9_CorrelationCompletes ==
    (Called /\ result.sub = "correlation" /\ Cardinality(NumericPos) >= 2) =>
        /\ result.status = "returned"
        /\ Len(result.response.cols) = 2
        /\ result.response.cols[1] # result.response.cols[2]
        /\ \A k \in 1..2 : \E i \in NumericPos :
              df.columns[i].name = result.response.cols[k]
        /\ result.visualization.kind = "scatter"
        /\ result.visualization.x = result.response.cols[1]
        /\ result.visualization.y = result.response.cols[2]

\* the intents that aggregate the first column named in the query
Aggregates ==
    \/ result.intent = "statistical" /\ result.sub \in {"mean", "median", "max", "min"}
          /\ NamedCols # {} /\ df.columns[First(NamedCols)].dtype = "number"
    \/ result.intent = "distribution" /\ NamedCols # {}

\* C10: a mean, median, maximum, minimum, distribution or trend query whose
\* column has no value present completes; it does not end in an exception.
C10_NoValueCompletes ==
    Called =>
        /\ (Aggregates /\ Present(NamedVals) = {}) => result.status = "returned"
        /\ (result.intent = "trend" /\ HasTimeCol /\ NumericPos # {}
               /\ \A i \in NumericPos : Present(df.columns[i].vals) = {})
              => result.status = "returned"

\* a trend query answered with the trend analysis
TrendAnswered ==
    /\ Called /\ result.intent = "trend" /\ result.status = "returned"
    /\ result.response.text = "## Trend Analysis"

\* C11: in a trend answer the percent change is (last - first) / first * 100
\* when the first value is not 0 and +infinity when it is 0, whatever the
\* last value; a trend query on a dataset with rows, a time column and a
\* numeric column is answered with a line chart and does not raise.
C11_PercentChange ==
    (Called /\ result.intent = "trend" /\ HasTimeCol /\ NumericPos # {}
        /\ df.index # <<>>) =>
        /\ TrendAnswered
        /\ result.visualization.kind = "line"
        /\ LET first == result.response.vals[1]
               last == result.response.vals[2]
               pct == result.response.vals[4]
           IN  IF first = [n |-> 0, d |-> 1] THEN pct = [n |-> 1, d |-> 0]
               ELSE IF first.d = 0 \/ last.d = 0 THEN pct = [n |-> 0, d |-> 0]
               ELSE /\ pct.d > 0
                    /\ pct.n * first.n * last.d
                           = (last.n * first.d - first.n * last.d) * 100 * pct.d

\* C11 witness: the first value is 0, the last one is not, and the answer
\* reports an infinite percent change with a line chart
C11_Witness ==
    /\ TrendAnswered
    /\ result.response.vals[1] = [n |-> 0, d |-> 1]
    /\ result.response.vals[2] = [n |-> 1, d |-> 1]
    /\ result.response.vals[4] = [n |-> 1, d |-> 0]
    /\ result.visualization.kind = "line"

\* the positions of the datetime-typed columns
DatetimePos == {i \in DOMAIN df.columns : df.columns[i].dtype = "datetime"}

\* the positions of the columns with a date word in their lowercased name
DateNamedPos ==
    {i \in DOMAIN df.columns :
        \E w \in {<<"d", "a", "t", "e">>, <<"t", "i", "m", "e">>,
                  <<"y", "e", "a", "r">>, <<"m", "o", "n", "t", "h">>,
                  <<"d", "a", "y">>} :
            Contains(LowerStr(df.columns[i].name), w)}

NoTimeColumn ==
    Msg("I couldn't find a suitable time or date column in the data to analyze trends.")

NoValueColumn ==
    Msg("I couldn't identify which value you want to track over time. Please specify a numeric column name.")

\* C12: the time column of a trend query is the first datetime-typed column if
\* there is one, whatever the names and the query; without a datetime-typed
\* column it is the first column whose lowercased name contains a date word;
\* without either the answer is the fixed message, without a chart.
C12_TimeColumn ==
    (Called /\ result.intent = "trend") =>
        IF DatetimePos = {} /\ DateNamedPos = {}
        THEN FailsWith(NoTimeColumn)
        ELSE LET time == IF DatetimePos # {} THEN First(DatetimePos)
                         ELSE First(DateNamedPos)
             IN  /\ ~(result.status = "returned" /\ result.response = NoTimeColumn)
                 /\ TrendAnswered =>
                       /\ result.response.cols[2] = df.columns[time].name
                       /\ result.visualization.x = df.columns[time].name

\* C12 witness: a column with a date word in its name comes before the first
\* datetime-typed column, a second datetime-typed column follows, and the
\* first datetime-typed column is the time column
C12_Witness ==
    /\ TrendAnswered
    /\ \E i \in DateNamedPos, j, k \in DatetimePos :
          /\ i < j /\ j < k /\ j = First(DatetimePos)
          /\ result.response.cols[2] = df.columns[j].name

\* C13: with a time column, the value column of a trend query is the first
\* numeric column whose lowercased name occurs in the query, named
\* non-numeric columns being skipped; when no numeric column is named it is
\* the first numeric column; only without numeric columns the answer is the
\* fixed message, without a chart.
C13_ValueColumn ==
    (Called /\ result.intent = "trend" /\ (DatetimePos # {} \/ DateNamedPos # {})) =>
        LET named == NamedCols \cap NumericPos
        IN  IF NumericPos = {} THEN FailsWith(NoValueColumn)
            ELSE LET value == IF named # {} THEN First(named) ELSE First(NumericPos)
                 IN  /\ ~(result.status = "returned" /\ result.response = NoValueColumn)
                     /\ TrendAnswered =>
                           /\ result.response.cols[1] = df.columns[value].name
                           /\ result.visualization.y = df.columns[value].name

\* C13 witness: a named non-numeric column comes before the named numeric
\* column, which is not the first numeric column, and is skipped
C13_Witness ==
    /\ TrendAnswered
    /\ \E i, j \in NamedCols :
          /\ i < j /\ i \notin NumericPos /\ j \in NumericPos
          /\ j # First(NumericPos)
          /\ result.response.cols[1] = df.columns[j].name

\* cell a is not after cell b in ascending order, missing cells last
NotAfter(a, b) == b = <<>> \/ (a # <<>> /\ a[1] <= b[1])

\* the float of a cell
CellFloat(c) == IF c = <<>> THEN [n |-> 0, d |-> 0] ELSE [n |-> c[1], d |-> 1]

\* C14: the start and end value of a trend answer are the value column's
\* entries of the rows that come first and last when the rows are sorted
\* ascending by the time column, and the change is end minus start.
C14_SortedByTime ==
    TrendAnswered =>
        LET time == ColVals(df, result.response.cols[2])
            value == ColVals(df, result.response.cols[1])
            rows == DOMAIN df.index
            start == result.response.vals[1]
            end == result.response.vals[2]
            change == result.response.vals[3]
        IN  /\ \E p, q \in rows :
                  /\ \A r \in rows : NotAfter(time[p], time[r]) /\ NotAfter(time[r], time[q])
                  /\ Cardinality(rows) >= 2 => p # q
                  /\ start = CellFloat(value[p])
                  /\ end = CellFloat(value[q])
            /\ IF start.d = 0 \/ end.d = 0 THEN change = [n |-> 0, d |-> 0]
               ELSE change = [n |-> end.n - start.n, d |-> 1]

\* C14 witness: the row that comes first by time is not the first row of the
\* dataset, and the start value is that row's, not the first row's
C14_Witness ==
    /\ TrendAnswered
    /\ Len(df.index) = 3
    /\ LET time == ColVals(df, result.response.cols[2])
           value == ColVals(df, result.response.cols[1])
       IN  /\ time = << <<1>>, <<0>>, <<>> >>
           /\ value = << <<0>>, <<1>>, <<0>> >>
           /\ result.response.vals[1] = [n |-> 1, d |-> 1]
           /\ result.response.vals[2] = [n |-> 0, d |-> 1]
           /\ result.response.vals[3] = [n |-> -1, d |-> 1]

\* detect_data_types has been called
Detected == Called /\ result.intent = "detect"

\* the buckets that hold the column at position i
BucketsOf(i) ==
    {b \in DOMAIN result.column_types :
        \E k \in DOMAIN result.column_types[b] :
            result.column_types[b][k] = df.columns[i].name}

\* the distinct values present in the column at position i
Distinct(i) ==
    {df.columns[i].vals[j][1] :
        j \in {r \in DOMAIN df.columns[i].vals : df.columns[i].vals[r] # <<>>}}

\* C15: detect_data_types puts every column of every dataset in exactly one
\* of the buckets numeric, categorical, datetime, text, boolean, and the
\* buckets hold columns of the dataset only.
C15_BucketsPartition ==
    Detected =>
        /\ result.status = "returned"
        /\ DOMAIN result.column_types
               = {"numeric", "categorical", "datetime", "text", "boolean"}
        /\ \A i \in DOMAIN df.columns : Cardinality(BucketsOf(i)) = 1
        /\ \A b \in DOMAIN result.column_types :
              /\ \A k \in DOMAIN result.column_types[b] :
                    \E i \in DOMAIN df.columns :
                        df.columns[i].name = result.column_types[b][k]
              /\ \A k, l \in DOMAIN result.column_types[b] :
                    result.column_types[b][k] = result.column_types[b][l] => k = l

\* C16: in what detect_data_types returns a datetime-typed column is in the
\* datetime bucket; a numeric-typed column is in the boolean bucket exactly
\* when it has at most 2 distinct values present, all of them 0 or 1 (true
\* or false), and in the numeric bucket otherwise.
C16_DatetimeAndBoolean ==
    (Detected /\ result.status = "returned") =>
        \A i \in DOMAIN df.columns :
            /\ df.columns[i].dtype = "datetime" => BucketsOf(i) = {"datetime"}
            /\ df.columns[i].dtype \in {"number", "bool"} =>
                  IF Cardinality(Distinct(i)) <= 2 /\ Distinct(i) \subseteq {0, 1}
                  THEN BucketsOf(i) = {"boolean"}
                  ELSE BucketsOf(i) = {"numeric"}

\* C16 witness: a number column holding 0, 1 and a missing cell is boolean,
\* next to a datetime column
C16_Witness ==
    /\ Detected /\ result.status = "returned"
    /\ Len(df.columns) >= 2
    /\ df.columns[1].dtype = "number"
    /\ Distinct(1) = {0, 1}
    /\ \E j \in DOMAIN df.columns[1].vals : df.columns[1].vals[j] = <<>>
    /\ BucketsOf(1) = {"boolean"}
    /\ BucketsOf(2) = {"datetime"}

\* the mean length of the strings of the column at position i exceeds limit
MeanLengthExceeds(i, limit) ==
    LET vals == df.columns[i].vals
        strs == {j \in DOMAIN vals : vals[j] # <<>> /\ vals[j][1].kind = "str"}
        total[S \in SUBSET strs] ==
            IF S = {} THEN 0
            ELSE LET j == CHOOSE r \in S : TRUE
                 IN  Len(vals[j][1].v) + total[S \ {j}]
    IN  strs # {} /\ total[strs] > limit * Cardinality(strs)

\* C17: detect_data_types returns, and a column that is neither numeric- nor
\* datetime-typed is in the text bucket exactly when its distinct values are
\* more than half its rows or the mean length of its strings exceeds 50, and
\* in the categorical bucket otherwise; so is a column without rows or
\* without values.
C17_TextOrCategorical ==
    Detected =>
        /\ result.status = "returned"
        /\ \A i \in DOMAIN df.columns :
              df.columns[i].dtype \notin {"number", "bool", "datetime"} =>
                  IF \/ 2 * Cardinality(Distinct(i)) > Len(df.index)
                     \/ (df.columns[i].dtype = "object" /\ MeanLengthExceeds(i, 50))
                  THEN BucketsOf(i) = {"text"}
                  ELSE BucketsOf(i) = {"categorical"}

\* C18: the columns the query engine takes as numeric (numeric_cols) are the
\* numeric bucket of detect_data_types.
C18_EngineNumericIsBucket ==
    (Detected /\ result.status = "returned") =>
        result.column_types["numeric"] = NumericCols(df)

-----------------------------------------------------------------------------
(* The calls leave the frame they are given as it was *)

\* the trend query that was answered sorted the rows into another order
SortMovedRows ==
    /\ result.intent = "trend" /\ result.status = "returned"
    /\ result.response.text = "## Trend Analysis"
    /\ result.response.table # [i \in DOMAIN df.index |-> i]

\* the filter that was applied dropped some rows and kept others
FilterDroppedRows ==
    /\ result.intent = "filter" /\ result.status = "returned"
    /\ result.filtered.index # <<>>
    /\ Len(result.filtered.index) < Len(df.index)

\* C19: query_data_with_ai and filter_data never modify the dataset they are
\* given: in every call of either, the frame the caller passed has afterwards
\* the rows, row order, columns and values it had before (what is sorted or
\* filtered is a new frame).
C19_FrameUnchanged == [][df' = df]_vars

\* a trend query has sorted the rows into another order than the dataset's
C19_Witness == SortMovedRows

\* a filter has kept some rows of the dataset and dropped others
C19_FilterWitness == FilterDroppedRows

-----------------------------------------------------------------------------
(* The conversation history over a session *)

\* the sequence s is the beginning of the sequence t
IsPrefix(s, t) == Len(s) <= Len(t) /\ SubSeq(t, 1, Len(s)) = s

\* C20: over any sequence of session events (loading or switching datasets,
\* filtering, generating charts, successful, failing and empty queries) the
\* conversation history only grows by appending: no event removes, reorders
\* or rewrites an entry already recorded.
C20_HistoryAppendOnly ==
    [][IsPrefix(session_state.chat_history, session_state.chat_history')]_vars

\* answers are recorded, none of them an error entry, the last query
\* made has failed, a chart has been generated and the data shown is
\* filtered: the failing query came upon a history that it left as it was
C20_Witness ==
    /\ session_state.chat_history # <<>>
    /\ \A i \in DOMAIN session_state.chat_history :
          session_state.chat_history[i].error = "None"
    /\ result.status = "raised"
    /\ session_state.chart # NoChart
    /\ df # session_state.data[1]

-----------------------------------------------------------------------------
(* The answer as a function of the query and the dataset *)

\* the answers query_data_with_ai may give to the query q on the frame d
Answers(q, d) ==
    { [status |-> o.status, response |-> o.response, chart |-> o.visualization] :
        o \in QueryDataWithAI(q, d) }

\* the entry recorded last
LastEntry(chat_history) == chat_history[Len(chat_history)]

-----------------------------------------------------------------------------
(* The filter and the statistics after it *)

\* a frame was filtered, and perhaps queried afterwards
WasFiltered == "filtered" \in DOMAIN result /\ result.status # "raised"

\* the positions of the rows of df whose entry in the filter column is one
\* of the filter values
Members ==
    {i \in DOMAIN df.index :
        /\ ColVals(df, result.column)[i] # <<>>
        /\ ColVals(df, result.column)[i][1] \in result.values}

\* the j-th of these positions in the order of df
Member(j) == CHOOSE p \in Members : Cardinality({x \in Members : x < p}) = j - 1

\* the cells of the named column of df in these rows, in the order of df
MemberVals(name) == [j \in 1..Cardinality(Members) |-> ColVals(df, name)[Member(j)]]

sales == <<"s", "a", "l", "e", "s">>

\* the statistic of "sales" the answered query asked for, over these rows
ExpectedStatistic ==
    CASE result.sub = "mean" -> Mean(MemberVals(sales))
      [] result.sub = "median" -> Median(MemberVals(sales))
      [] result.sub = "max" -> SeriesMax(MemberVals(sales))
      [] result.sub = "min" -> SeriesMin(MemberVals(sales))

\* C22: filter_data(df, column, values) returns exactly the rows of df whose
\* entry in column is a member of values, in their original order, and a
\* query answered after the filter computes every statistic (row count,
\* mean, median, min, max) over those rows only.
C22_FilterThenQuery ==
    WasFiltered =>
        /\ Len(result.filtered.index) = Cardinality(Members)
        /\ \A j \in DOMAIN result.filtered.index :
              /\ result.filtered.index[j] = df.index[Member(j)]
              /\ \A c \in DOMAIN df.columns :
                    result.filtered.columns[c].vals[j] = df.columns[c].vals[Member(j)]
        /\ result.intent = "summary" =>
              /\ result.response.vals[1] = Num(Cardinality(Members))
              /\ result.response.table[1] =
                     <<SeriesMin(MemberVals(sales)), SeriesMax(MemberVals(sales)),
                       Mean(MemberVals(sales)), Median(MemberVals(sales))>>
        /\ result.intent = "statistical" =>
              result.response.vals = <<ExpectedStatistic>>

\* a mean query was answered on a filtered frame that has fewer rows than
\* the dataset and another mean than the dataset
C22_Witness ==
    /\ WasFiltered /\ result.sub = "mean"
    /\ result.filtered.index # <<>>
    /\ Len(result.filtered.index) < Len(df.index)
    /\ ~IsNaN(result.response.vals[1])
    /\ result.response.vals[1] # Mean(ColVals(df, sales))

-----------------------------------------------------------------------------
(* The mean and the median, their text and their reference line *)

\* the values of "price" that are not missing
PriceValues ==
    LET cells == SelectSeq(ColVals(df, price), LAMBDA c : c # <<>>)
    IN  [i \in DOMAIN cells |-> cells[i][1]]

\* the j-th smallest of the values
Kth(v, j) ==
    CHOOSE x \in {v[i] : i \in DOMAIN v} :
        /\ Cardinality({i \in DOMAIN v : v[i] < x}) < j
        /\ Cardinality({i \in DOMAIN v : v[i] <= x}) >= j

\* the float x is the fraction num / den
IsFraction(x, num, den) == x.d > 0 /\ x.n * den = num * x.d

\* the float x is the mean of the values
IsMeanOf(x, v) ==
    IF v = <<>> THEN IsNaN(x) ELSE IsFraction(x, SumSeq(v), Len(v))

\* the float x is the median of the values
IsMedianOf(x, v) ==
    LET k == Len(v)
    IN  IF k = 0 THEN IsNaN(x)
        ELSE IF k % 2 = 1 THEN IsFraction(x, Kth(v, (k + 1) \div 2), 1)
        ELSE IsFraction(x, Kth(v, k \div 2) + Kth(v, (k \div 2) + 1), 2)

DigitValue(c) == CHOOSE k \in 0..9 : Digit(k) = c

RECURSIVE Natural(_)
Natural(s) ==
    IF s = <<>> THEN 0 ELSE 10 * Natural(SubSeq(s, 1, Len(s) - 1)) + DigitValue(s[Len(s)])

\* the text s is a number written with digits, a point and two decimals, and
\* no number with two decimals is nearer to the float x
TwoDecimalsOf(s, x) ==
    IF IsNaN(x) THEN s = <<"n", "a", "n">>
    ELSE /\ Len(s) >= 4
         /\ s[Len(s) - 2] = "."
         /\ \A i \in DOMAIN s : i # Len(s) - 2 => s[i] \in {Digit(k) : k \in 0..9}
         /\ LET h == 100 * Natural(SubSeq(s, 1, Len(s) - 3))
                     + Natural(SubSeq(s, Len(s) - 1, Len(s)))
            IN  2 * Abs(h * x.d - 100 * x.n) <= x.d

\* C23: for a mean (resp. median) query that resolves to a numeric column
\* the response states the mean (resp. median) of the column's non-missing
\* values to two decimals, and the chart is a histogram of that column with
\* a vertical reference line at that value; for price = [10, 20, 30, 40] and
\* "what is the average price?" the text is 25.00 and the line is at 25.
C23_MeanMedianLine ==
    (Called /\ result.status = "returned") =>
        /\ result.response.cols = <<price>>
        /\ Len(result.response.vals) = 1
        /\ LET x == result.response.vals[1]
           IN  /\ result.sub = "mean" => IsMeanOf(x, PriceValues)
               /\ result.sub = "median" => IsMedianOf(x, PriceValues)
               /\ TwoDecimalsOf(result.response.shown, x)
               /\ result.visualization.kind = "histogram"
               /\ result.visualization.x = price
               /\ result.visualization.vline = <<x>>
        /\ (df = PriceExample /\ result.sub = "mean") =>
              /\ result.response.shown = <<"2", "5", ".", "0", "0">>
              /\ result.visualization.vline = <<[n |-> 25, d |-> 1]>>

\* "what is the average price?" was answered for price = [10, 20, 30, 40]
C23_Witness ==
    /\ Called /\ result.status = "returned"
    /\ df = PriceExample
    /\ result.sub = "mean"
    /\ query[1] = "w"
    /\ result.response.shown = <<"2", "5", ".", "0", "0">>

\* a mean that is no number of two decimals was written rounded up
C23_RoundedWitness ==
    /\ Called /\ result.status = "returned"
    /\ result.sub = "mean"
    /\ result.response.vals[1] = [n |-> 2, d |-> 3]
    /\ result.response.shown = <<"0", ".", "6", "7">>

-----------------------------------------------------------------------------
(* The three cases of a comparison *)

\* the cells of the column at position num in the rows where the column at
\* position cat holds the value key
GroupCells(cat, num, key) ==
    LET rows == {i \in DOMAIN df.index : df.columns[cat].vals[i] = <<key>>}
    IN  [j \in 1..Cardinality(rows) |->
            df.columns[num].vals[CHOOSE p \in rows : Cardinality({x \in rows : x < p}) = j - 1]]

\* the mean, median, minimum and maximum of the cells
FourStatistics(cells) == <<Mean(cells), Median(cells), SeriesMin(cells), SeriesMax(cells)>>

\* the values the column at position i holds
ValuesAt(i) ==
    {df.columns[i].vals[r][1] : r \in {x \in DOMAIN df.index : df.columns[i].vals[x] # <<>>}}

\* the sum of the counts of a table
TableTotal(table) ==
    SumSeq([i \in DOMAIN table |-> SumSeq(table[i])])

\* C24: for the comparison intent with two resolved columns exactly one of
\* three cases applies and each yields a chart: both numeric gives mean,
\* median, min and max of each column plus their correlation and a scatter;
\* one numeric and one non-numeric gives mean, median, min and max of the
\* numeric column per group and a box plot; both non-numeric gives a
\* cross-tabulation and a heatmap.  The chart is never missing.
C24_ThreeCases ==
    (Called /\ result.intent = "comparison" /\ Cardinality(NamedCols) >= 2) =>
        LET i1 == First(NamedCols)
            i2 == First(NamedCols \ {i1})
            n1 == i1 \in NumericPos
            n2 == i2 \in NumericPos
            chart == result.visualization
        IN  /\ result.status = "returned"
            /\ chart # NoChart
            /\ chart.kind \in {"scatter", "box", "heatmap"}
            /\ chart.kind = "scatter" <=> (n1 /\ n2)
            /\ chart.kind = "box" <=> (n1 /\ ~n2) \/ (~n1 /\ n2)
            /\ chart.kind = "heatmap" <=> (~n1 /\ ~n2)
            /\ (n1 /\ n2) =>
                  /\ result.response.vals =
                         FourStatistics(df.columns[i1].vals) \o FourStatistics(df.columns[i2].vals)
                  /\ result.response.table = <<Corr(df.columns[i1].vals, df.columns[i2].vals)>>
                  /\ chart.x = df.columns[i1].name /\ chart.y = df.columns[i2].name
            /\ (n1 # n2) =>
                  LET num == IF n1 THEN i1 ELSE i2
                      cat == IF n1 THEN i2 ELSE i1
                      lines == result.response.table
                  IN  /\ {lines[k][1].n : k \in DOMAIN lines} = ValuesAt(cat)
                      /\ Len(lines) = Cardinality(ValuesAt(cat))
                      /\ \A k \in DOMAIN lines :
                            SubSeq(lines[k], 2, 5) =
                                FourStatistics(GroupCells(cat, num, lines[k][1].n))
                      /\ chart.x = df.columns[cat].name /\ chart.y = df.columns[num].name
            /\ (~n1 /\ ~n2) =>
                  /\ Len(result.response.table) = Cardinality(
                         {df.columns[i1].vals[r][1] : r \in
                             {x \in DOMAIN df.index : /\ df.columns[i1].vals[x] # <<>>
                                                      /\ df.columns[i2].vals[x] # <<>>}})
                  /\ TableTotal(result.response.table) = Cardinality(
                         {x \in DOMAIN df.index : /\ df.columns[i1].vals[x] # <<>>
                                                  /\ df.columns[i2].vals[x] # <<>>})

\* a bool column and a datetime column were compared by a cross-tabulation
\* with a heatmap
C24_Witness ==
    /\ Called /\ result.intent = "comparison" /\ Cardinality(NamedCols) >= 2
    /\ df.columns[First(NamedCols)].dtype = "bool"
    /\ df.columns[First(NamedCols \ {First(NamedCols)})].dtype = "datetime"
    /\ result.visualization.kind = "heatmap"
    /\ TableTotal(result.response.table) = 2

\* a numeric column was compared across the groups of a category column
C24_BoxWitness ==
    /\ Called /\ result.intent = "comparison" /\ Cardinality(NamedCols) >= 2
    /\ df.columns[First(NamedCols)].dtype = "category"
    /\ df.columns[First(NamedCols \ {First(NamedCols)})].dtype = "number"
    /\ result.visualization.kind = "box"
    /\ result.response.table # <<>>

\* two numeric columns were compared
C24_ScatterWitness ==
    /\ Called /\ result.intent = "comparison" /\ Cardinality(NamedCols) >= 2
    /\ result.visualization.kind = "scatter"
    /\ Len(df.index) = 2

-----------------------------------------------------------------------------
(* The chart of the fallback branch *)

\* C25: for the fallback intent the chart is determined only by the
\* dataset's column types: a correlation heatmap with at least 2 numeric
\* columns, a histogram of the single numeric column with exactly 1, a bar
\* chart of the first non-numeric column with no numeric and at least 1
\* non-numeric column, and no chart only when the dataset has no columns.
C25_FallbackChart ==
    (Called /\ result.intent = "fallback") =>
        LET numeric == NumericPos
            others == DOMAIN df.columns \ NumericPos
            chart == result.visualization
        IN  /\ result.status = "returned"
            /\ Cardinality(numeric) >= 2 => chart.kind = "heatmap"
            /\ Cardinality(numeric) = 1 =>
                  /\ chart.kind = "histogram"
                  /\ chart.x = df.columns[First(numeric)].name
            /\ (numeric = {} /\ others # {}) =>
                  /\ chart.kind = "bar"
                  /\ chart.x = df.columns[First(others)].name
            /\ chart = NoChart <=> df.columns = <<>>

\* the chart is the one of the column types whenever the call returns
C25_ChartWhenReturned ==
    (Called /\ result.intent = "fallback" /\ result.status = "returned") => C25_FallbackChart

-----------------------------------------------------------------------------
(* The column of a numeric-only query *)

\* C26: for mean, median, maximum and minimum queries the resolver does not
\* skip non-numeric columns: if the first column in dataset order whose name
\* occurs in the query is non-numeric, the answer is the "couldn't identify
\* which numeric column" message without a chart, even when a numeric column
\* further on is named in the query as well.
C26_NonNumericNotSkipped ==
    (/\ Called /\ result.intent = "statistical"
     /\ result.sub \in {"mean", "median", "max", "min"}
     /\ NamedCols # {}
     /\ First(NamedCols) \notin NumericPos)
    => /\ result.status = "returned"
       /\ result.response = NoNumericColumn[result.sub]
       /\ result.visualization = NoChart

\* a mean query names a non-numeric column and, after it in the dataset, a
\* numeric column that has values, and got the message
C26_Witness ==
    /\ Called /\ result.intent = "statistical" /\ result.sub = "mean"
    /\ NamedCols # {}
    /\ First(NamedCols) \notin NumericPos
    /\ \E i \in NamedCols \cap NumericPos : Present(df.columns[i].vals) # {}
    /\ result.response = NoNumericColumn["mean"]

\* C27: whenever query_data_with_ai returns, the response text is not empty:
\* every path through the intent dispatch assigns a response; a query that
\* passes the statistical keyword gate enters one of the five statistical
\* sub-branches, and a column resolved by a distribution query is answered by
\* the numeric or by the non-numeric case.
C27_ResponseAssigned ==
    (Called /\ result.status = "returned") =>
        /\ result.response.text # ""
        /\ result.response # Msg("")
        /\ result.intent = "statistical" => result.sub \in {SubNames[k] : k \in 1..5}
        /\ (result.intent = "distribution" /\ NamedCols # {})
               => result.response.text = "## Distribution Analysis"

\* C27 witness: a distribution query resolved a non-numeric column and was
\* answered with the distribution heading
C27_Witness ==
    /\ Called /\ result.intent = "distribution" /\ result.status = "returned"
    /\ NamedCols # {} /\ First(NamedCols) \notin NumericPos
    /\ result.response.text = "## Distribution Analysis"

\* C27 witness: a query passed the statistical gate by "correlat" alone and
\* was answered by the correlation sub-branch
C27_GateWitness ==
    /\ Called /\ result.intent = "statistical" /\ result.status = "returned"
    /\ \A k \in 1..4 : ~SubMatches[k]
    /\ result.sub = "correlation" /\ result.response.text # ""

\* the row at position p of the frame d, one cell per column
FrameRow(d, p) == [j \in DOMAIN d.columns |-> d.columns[j].vals[p]]

\* d has the columns of data and each of its rows is a row of data
RowsOf(d, data) ==
    /\ [j \in DOMAIN d.columns |-> [name |-> d.columns[j].name, dtype |-> d.columns[j].dtype]]
          = [j \in DOMAIN data.columns |->
                [name |-> data.columns[j].name, dtype |-> data.columns[j].dtype]]
    /\ \A p \in DOMAIN d.index :
          \E r \in DOMAIN data.index : FrameRow(d, p) = FrameRow(data, r)

\* the frames that the selections w make of the loaded data: the sample,
\* then the category filter, then the range filter unless its slider raised
Narrowed(data, w) ==
    { LET filtered == CategoryFiltered(s, w.category)
      IN  IF w.range.raises THEN filtered ELSE RangeFiltered(filtered, w.range)
      : s \in Sampled(data, w.sample_size) }

Unfiltered ==
    /\ session_state.data # <<>>
    /\ session_state.widgets.category.column = NoneCol
    /\ session_state.widgets.range.column = NoneCol
    /\ df = session_state.data[1]

AskedStep == query' # query \/ result' # result

\* C29: a run appends at most one entry to the history.  An entry appended
\* holds the question asked, which is not empty, and either the response and
\* the chart the engine returned, or, when the evaluation raised and the
\* history was empty, the error and no chart.  An evaluation that raises with
\* a history that is not empty appends nothing.
C29_AskRecords ==
    [][LET h == session_state.chat_history
           h1 == session_state.chat_history'
       IN  /\ h1 = h \/ (Len(h1) = Len(h) + 1 /\ SubSeq(h1, 1, Len(h)) = h)
           /\ h1 # h =>
                 LET e == h1[Len(h1)]
                 IN  /\ e.user = query' /\ e.user # <<>>
                     /\ \/ /\ result'.status = "returned"
                           /\ e.error = "None"
                           /\ e.response = result'.response
                           /\ e.chart = result'.visualization
                        \/ /\ result'.status = "raised"
                           /\ h = <<>>
                           /\ e.error = result'.error /\ e.error # "None"
                           /\ e.chart = NoChart
           /\ (AskedStep /\ result'.status = "returned") => Len(h1) = Len(h) + 1
           /\ (AskedStep /\ result'.status = "raised")
                 => Len(h1) = (IF h = <<>> THEN 1 ELSE Len(h))]_vars

\* C29 witness: after an answered question a question whose evaluation
\* raised left the history as it was
C29_Witness ==
    /\ Len(session_state.chat_history) = 1
    /\ session_state.chat_history[1].error = "None"
    /\ result.status = "raised"
    /\ query # session_state.chat_history[1].user

\* C29 witness: the first question's evaluation raised and its error entry,
\* without a chart, is the history
C29_ErrorWitness ==
    /\ Len(session_state.chat_history) = 1
    /\ session_state.chat_history[1].error # "None"
    /\ session_state.chat_history[1].chart = NoChart
    /\ session_state.chat_history[1].user = query

\* the requests of the call made to one source
RequestsTo(source) ==
    {i \in DOMAIN result.requests : result.requests[i].source = source}

\* the source did not answer with a list that could be read: an exception of
\* requests, an error status, a body that is not JSON, a coin without a key
Failed(response) ==
    LET read == ReadResponse(response, Len(response.data))
    IN  Caught(read.error)

\* C30: get_crypto_data always returns a dataset that is not empty.
C30_NonEmptyDataset ==
    (result.intent = "crypto" /\ result.status = "returned") => NRows(df) > 0

\* the remainder of C30: the call does not raise a request, value or key
\* error; CoinPaprika is requested only after CoinGecko answered 429 or
\* failed; the static sample is returned only after CoinPaprika failed too;
\* each source is requested at most once.
C30_FallbackOrder ==
    result.intent = "crypto" =>
        /\ result.status = "raised" => ~Caught(result.error)
        /\ Cardinality(RequestsTo("coingecko")) <= 1
        /\ Cardinality(RequestsTo("coinpaprika")) <= 1
        /\ \A i \in RequestsTo("coinpaprika") :
              /\ i = 2 /\ result.requests[1].source = "coingecko"
              /\ \/ result.requests[1].response.status_code = TooManyRequests
                 \/ Failed(result.requests[1].response)
        /\ (result.pc = "sample" \/ (result.status = "returned" /\ df = StaticSample))
              => /\ Len(result.requests) = 2
                 /\ result.requests[2].source = "coinpaprika"
                 /\ Failed(result.requests[2].response)

\* the static sample was returned after both sources failed
C30_SampleWitness ==
    /\ result.intent = "crypto" /\ result.status = "returned"
    /\ df = StaticSample
    /\ result.requests[1].response.status_code = TooManyRequests
    /\ result.requests[2].response.kind = "exception"
====
